---- MODULE Spec2Model ----
(***************************************************************************)
(* Model of the Neo4j query optimizer agent                                *)
(* (src/src/mcp_neo4j_optimizer/agent.py).                                 *)
(*                                                                         *)
(* A Python dict is a TLA+ function whose DOMAIN is the set of keys that   *)
(* are present; dict.get(k, d) is Get(d_, k, d).  Python strings are TLA+  *)
(* strings, taken apart with Len and SubSeq, so that `x in s`, s.upper()   *)
(* and s.split("@")[0] are computed character by character.               *)
(***************************************************************************)
EXTENDS Integers, Sequences, FiniteSets, TLC

VARIABLES pc,            \* which call has completed
          plan,          \* plan tree handed to the agent (original plan)
          plan2,         \* second plan tree of compare_plans (optimized plan)
          operators,     \* flat operator records (input or extraction result)
          issues,        \* return value of analyze_plan_issues
          comparison,    \* return value of compare_plans
          original_ops,  \* histogram arguments of _identify_improvements
          optimized_ops,
          improvements,  \* return value of _identify_improvements
          opname,        \* operator name handed to the classifiers
          classified,    \* the three classifier results for opname
          query,         \* query text
          query_type,    \* return value of _classify_query_type
          complexity,    \* return value of _assess_query_complexity
          query_patterns,              \* return value of _identify_query_patterns
          performance_characteristics, \* of _analyze_performance_characteristics
          analysis,      \* return value of analyze_query
          plan_obj,      \* plan as the driver hands it to _plan_to_dict
          plan_dict,     \* return value of _plan_to_dict
          optimized_query, \* return value of generate_optimized_query
          scratch,       \* per agent: the list `operators` its last call built
          issues2,       \* return value of a second analyze_plan_issues call
          calls,         \* analysis calls made between the two
          request,       \* JSON-RPC request being handled
          driver,        \* the global `driver`
          database,      \* the database: configured, reachable, answers given
          log,           \* what the tool call has done so far, in order
          plan_data,     \* return value of the last get_query_plan
          response,      \* what the caller receives
          heap,          \* the mutable objects (dicts, lists), by address
          heap_before,   \* the heap as it was when the call was made
          inputs,        \* the arguments of the call
          returned       \* the return value of the call

vars == <<pc, plan, plan2, operators, issues, comparison, original_ops,
          optimized_ops, improvements, opname, classified, query,
          query_type, complexity, query_patterns, performance_characteristics,
          analysis, plan_obj, plan_dict, optimized_query, scratch, issues2,
          calls, request, driver, database, log, plan_data, response,
          heap, heap_before, inputs, returned>>

\* the objects the caller and the result of a call hold references to
heapvars == <<heap, heap_before, inputs, returned>>

\* the state of the plan conversion, the rewriter, the repeated calls and the
\* tool calls
callvars == <<plan_obj, plan_dict, optimized_query, scratch, issues2, calls,
              request, driver, database, log, plan_data, response>>

\* the return values of the query text classifier
textvars == <<query_type, complexity, query_patterns, performance_characteristics>>

(***************************************************************************)
(* Bounds of the model.                                                    *)
(***************************************************************************)
MaxNodes == 3       \* nodes of a plan tree
MaxOps == 2         \* records of a flat operator list
MaxCount == 2       \* total of the counts of a histogram given directly
MaxNameFrags == 3   \* fragments an operator name is built from
MaxQueryFrags == 3  \* fragments a query text is built from
MaxTextFrags == 2   \* clauses a query text is built from
MaxObjNodes == 3    \* nodes of a plan handed over by the driver
MaxKids == 1        \* children of the root of a malformed plan
MaxRewriteFrags == 2  \* clauses a query handed to the rewriter is built from
MaxCalls == 2       \* analysis calls between two calls on the same plan
MaxHeapNodes == 2   \* nodes of a plan and records of a list laid out in the heap
MaxTags == 2        \* "@tag" suffixes of an operator name

(***************************************************************************)
(* Python built-ins.                                                       *)
(***************************************************************************)
\* d.get(k, default)
Get(d, k, default) == IF k \in DOMAIN d THEN d[k] ELSE default

\* the empty dict {}
EmptyDict == [k \in {} |-> 0]

\* bool(d) of a dict: an empty dict is falsy
Truthy(d) == DOMAIN d # {}

\* `t in s` on strings
Contains(s, t) ==
    \E i \in 0..(Len(s) - Len(t)) : SubSeq(s, i + 1, i + Len(t)) = t

\* s.split("@")[0]: the text before the first "@"
SplitAtHead(s) ==
    IF Contains(s, "@")
    THEN LET i == CHOOSE i \in 1..Len(s) :
                    /\ SubSeq(s, i, i) = "@"
                    /\ \A j \in 1..(i - 1) : SubSeq(s, j, j) # "@"
         IN  SubSeq(s, 1, i - 1)
    ELSE s

LowerChars == <<"a", "b", "c", "d", "e", "f", "g", "h", "i", "j", "k", "l", "m",
                "n", "o", "p", "q", "r", "s", "t", "u", "v", "w", "x", "y", "z">>
UpperChars == <<"A", "B", "C", "D", "E", "F", "G", "H", "I", "J", "K", "L", "M",
                "N", "O", "P", "Q", "R", "S", "T", "U", "V", "W", "X", "Y", "Z">>

UpperChar(c) ==
    IF \E i \in 1..26 : LowerChars[i] = c
    THEN UpperChars[CHOOSE i \in 1..26 : LowerChars[i] = c]
    ELSE c

\* s.upper()
RECURSIVE Upper(_)
Upper(s) ==
    IF Len(s) = 0 THEN ""
    ELSE UpperChar(SubSeq(s, 1, 1)) \o Upper(SubSeq(s, 2, Len(s)))

\* sum(...) over a sequence of integers
RECURSIVE SumSeq(_)
SumSeq(s) == IF Len(s) = 0 THEN 0 ELSE Head(s) + SumSeq(Tail(s))

\* list concatenation of a sequence of lists
RECURSIVE Flatten(_)
Flatten(ss) == IF Len(ss) = 0 THEN <<>> ELSE Head(ss) \o Flatten(Tail(ss))

(***************************************************************************)
(* Neo4jAnalyzer: operator classification.                                 *)
(***************************************************************************)
leaf_operators ==
    {"AllNodesScan", "Argument", "ArgumentTracker", "AssertingMultiNodeIndexSeek",
     "AssertingMultiRelationshipIndexSeek", "AssertingSingleNodeIndexSeek",
     "AssertingSingleRelationshipIndexSeek", "DirectedAllRelationshipsScan",
     "DirectedRelationshipByElementIdSeek", "DirectedRelationshipByIdSeek",
     "DirectedRelationshipIndexContainsScan", "DirectedRelationshipIndexEndsWithScan",
     "DirectedRelationshipIndexScan", "DirectedRelationshipIndexSeek",
     "DirectedRelationshipIndexSeekByRange", "DirectedRelationshipTypeScan",
     "DirectedUnionRelationshipTypesScan", "NodeByElementIdSeek", "NodeByIdSeek",
     "NodeByLabelScan", "NodeIndexContainsScan", "NodeIndexEndsWithScan",
     "NodeIndexScan", "NodeIndexSeek", "NodeIndexSeekByRange", "NodeUniqueIndexSeek",
     "NodeUniqueIndexSeekByRange", "UndirectedAllRelationshipsScan",
     "UndirectedRelationshipByElementIdSeek", "UndirectedRelationshipByIdSeek",
     "UndirectedRelationshipIndexContainsScan", "UndirectedRelationshipIndexEndsWithScan",
     "UndirectedRelationshipIndexScan", "UndirectedRelationshipIndexSeek",
     "UndirectedRelationshipIndexSeekByRange", "UndirectedRelationshipTypeScan",
     "UndirectedUnionRelationshipTypesScan", "UnionNodeByLabelsScan"}

updating_operators ==
    {"Create", "Delete", "MergeCreateNode", "MergeCreateRelationship",
     "RemoveLabels", "SetLabels", "SetNodeProperties", "SetNodeProperty",
     "SetProperties", "SetProperty", "SetRelationshipProperties",
     "SetRelationshipProperty"}

eager_operators ==
    {"EagerAggregation", "EagerLimit", "EagerSort", "EagerUnion",
     "ValueHashJoin", "CartesianProduct"}

\* mutant: leaf status guessed from the name ending instead of the catalog
Mut_is_leaf_operator(operator) ==
    Contains(operator, "Scan") \/ Contains(operator, "Seek")

_is_leaf_operator(operator) == operator \in leaf_operators

\* mutant: every name with "Create" or "Set" inside is taken to be updating
Mut_is_updating_operator(operator) ==
    operator \in updating_operators
    \/ Contains(operator, "Create") \/ Contains(operator, "Set")

_is_updating_operator(operator) == operator \in updating_operators

\* mutant: the substring rule is dropped
Mut_is_eager_operator(operator) == operator \in eager_operators

_is_eager_operator(operator) ==
    operator \in eager_operators \/ Contains(operator, "Eager")

\* the list built by the six `if` statements, in their order
IndicatorList(operator, estimated_rows, db_hits) ==
       (IF estimated_rows > 100000 THEN <<"high_row_count">> ELSE <<>>)
    \o (IF db_hits > 10000 THEN <<"high_db_hits">> ELSE <<>>)
    \o (IF operator \in {"AllNodesScan", "UndirectedAllRelationshipsScan"}
        THEN <<"full_scan">> ELSE <<>>)
    \o (IF operator \in {"CartesianProduct"} THEN <<"cartesian_product">> ELSE <<>>)
    \o (IF Contains(operator, "Index") THEN <<"index_usage">> ELSE <<>>)
    \o (IF Contains(operator, "Eager") THEN <<"eager_operation">> ELSE <<>>)

\* mutant: the db_hits threshold is not strict
Mut_get_operator_characteristics(operator, estimated_rows, db_hits) ==
    [operator_type |-> operator,
     estimated_rows |-> estimated_rows,
     db_hits |-> db_hits,
     performance_indicators |->
         IndicatorList(operator, estimated_rows, db_hits + 1)]

_get_operator_characteristics(operator, estimated_rows, db_hits) ==
    [operator_type |-> operator,
     estimated_rows |-> estimated_rows,
     db_hits |-> db_hits,
     performance_indicators |-> IndicatorList(operator, estimated_rows, db_hits)]

\* mutant: the operator is classified by its raw name
Mut_OperatorInfo(op) ==
    LET operator == Get(op, "operator", "Unknown")
        clean_operator == IF Contains(operator, "@") THEN SplitAtHead(operator)
                          ELSE operator
        estimated_rows == Get(op, "estimated_rows", 0)
        db_hits == Get(op, "db_hits", 0)
    IN  [operator |-> operator,
         clean_operator |-> clean_operator,
         estimated_rows |-> estimated_rows,
         db_hits |-> db_hits,
         depth |-> Get(op, "depth", 0),
         args |-> Get(op, "args", EmptyDict),
         identifiers |-> Get(op, "identifiers", <<>>),
         is_leaf |-> _is_leaf_operator(operator),
         is_updating |-> _is_updating_operator(operator),
         is_eager |-> _is_eager_operator(operator),
         performance_characteristics |->
             _get_operator_characteristics(operator, estimated_rows, db_hits)]

\* the body of the loop of analyze_operators: one operator_info per record
OperatorInfo(op) ==
    LET operator == Get(op, "operator", "Unknown")
        clean_operator == IF Contains(operator, "@") THEN SplitAtHead(operator)
                          ELSE operator
        estimated_rows == Get(op, "estimated_rows", 0)
        db_hits == Get(op, "db_hits", 0)
    IN  [operator |-> operator,
         clean_operator |-> clean_operator,
         estimated_rows |-> estimated_rows,
         db_hits |-> db_hits,
         depth |-> Get(op, "depth", 0),
         args |-> Get(op, "args", EmptyDict),
         identifiers |-> Get(op, "identifiers", <<>>),
         is_leaf |-> _is_leaf_operator(clean_operator),
         is_updating |-> _is_updating_operator(clean_operator),
         is_eager |-> _is_eager_operator(clean_operator),
         performance_characteristics |->
             _get_operator_characteristics(clean_operator, estimated_rows, db_hits)]

\* mutant: the last record is lost
Mut_analyze_operators(ops, q) ==
    [i \in 1..(Len(ops) - 1) |-> OperatorInfo(ops[i])]

analyze_operators(ops, q) == [i \in 1..Len(ops) |-> OperatorInfo(ops[i])]

(***************************************************************************)
(* Neo4jAnalyzer: query text classification.                               *)
(***************************************************************************)
\* mutant: DELETE and REMOVE are looked for before CREATE
Mut_classify_query_type(q) ==
    LET query_upper == Upper(q)
    IN  IF Contains(query_upper, "DELETE") \/ Contains(query_upper, "REMOVE")
        THEN "delete"
        ELSE IF Contains(query_upper, "CREATE") THEN "write"
        ELSE IF Contains(query_upper, "SET") \/ Contains(query_upper, "MERGE")
        THEN "update"
        ELSE IF Contains(query_upper, "MATCH") /\ Contains(query_upper, "RETURN")
        THEN "read"
        ELSE "unknown"

_classify_query_type(q) ==
    LET query_upper == Upper(q)
    IN  IF Contains(query_upper, "CREATE") THEN "write"
        ELSE IF Contains(query_upper, "DELETE") \/ Contains(query_upper, "REMOVE")
        THEN "delete"
        ELSE IF Contains(query_upper, "SET") \/ Contains(query_upper, "MERGE")
        THEN "update"
        ELSE IF Contains(query_upper, "MATCH") /\ Contains(query_upper, "RETURN")
        THEN "read"
        ELSE "unknown"

\* len(re.findall(r'\[.*?\]', s)) counted from index `from` on: the leftmost
\* "[" that has a "]" later on its line matches up to the nearest "]", and the
\* search goes on after it
RECURSIVE BracketMatches(_, _)
BracketMatches(s, from) ==
    LET opens == {i \in from..Len(s) :
                     /\ SubSeq(s, i, i) = "["
                     /\ \E j \in (i + 1)..Len(s) :
                           /\ SubSeq(s, j, j) = "]"
                           /\ \A k \in (i + 1)..(j - 1) : SubSeq(s, k, k) # "\n"}
    IN  IF opens = {} THEN 0
        ELSE LET i == CHOOSE i \in opens : \A o \in opens : i <= o
                 j == CHOOSE j \in (i + 1)..Len(s) :
                         /\ SubSeq(s, j, j) = "]"
                         /\ \A k \in (i + 1)..(j - 1) : SubSeq(s, k, k) # "]"
             IN  1 + BracketMatches(s, j + 1)

Min(a, b) == IF a <= b THEN a ELSE b

\* mutant: the relationship count is added without the cap
Mut_complexity_score(q) ==
      (IF Contains(q, "MATCH") THEN 1 ELSE 0)
    + (IF Contains(q, "WHERE") THEN 1 ELSE 0)
    + (IF Contains(q, "ORDER BY") THEN 1 ELSE 0)
    + (IF Contains(q, "LIMIT") THEN 1 ELSE 0)
    + (IF Contains(q, "COUNT(") \/ Contains(q, "SUM(") \/ Contains(q, "AVG(")
       THEN 2 ELSE 0)
    + (IF Contains(Upper(q), "UNION") THEN 2 ELSE 0)
    + (IF Contains(Upper(q), "CASE") THEN 1 ELSE 0)
    + (IF Contains(Upper(q), "WITH") THEN 1 ELSE 0)
    + BracketMatches(q, 1)

complexity_score(q) ==
      (IF Contains(q, "MATCH") THEN 1 ELSE 0)
    + (IF Contains(q, "WHERE") THEN 1 ELSE 0)
    + (IF Contains(q, "ORDER BY") THEN 1 ELSE 0)
    + (IF Contains(q, "LIMIT") THEN 1 ELSE 0)
    + (IF Contains(q, "COUNT(") \/ Contains(q, "SUM(") \/ Contains(q, "AVG(")
       THEN 2 ELSE 0)
    + (IF Contains(Upper(q), "UNION") THEN 2 ELSE 0)
    + (IF Contains(Upper(q), "CASE") THEN 1 ELSE 0)
    + (IF Contains(Upper(q), "WITH") THEN 1 ELSE 0)
    + Min(BracketMatches(q, 1), 3)

_assess_query_complexity(q) ==
    IF complexity_score(q) <= 2 THEN "simple"
    ELSE IF complexity_score(q) <= 5 THEN "medium"
    ELSE "complex"

\* mutant: WITH is looked for in the query as written
Mut_identify_query_patterns(q) ==
       (IF Contains(q, "MATCH (") THEN <<"node matching">> ELSE <<>>)
    \o (IF Contains(q, "-[") /\ Contains(q, "]->")
        THEN <<"relationship traversal">> ELSE <<>>)
    \o (IF Contains(q, "WHERE") THEN <<"property filtering">> ELSE <<>>)
    \o (IF Contains(q, "ORDER BY") THEN <<"result sorting">> ELSE <<>>)
    \o (IF Contains(q, "LIMIT") THEN <<"result limiting">> ELSE <<>>)
    \o (IF Contains(q, "COUNT(") \/ Contains(q, "SUM(") \/ Contains(q, "AVG(")
        THEN <<"aggregation">> ELSE <<>>)
    \o (IF Contains(Upper(q), "UNION") THEN <<"query union">> ELSE <<>>)
    \o (IF Contains(q, "WITH") THEN <<"query chaining">> ELSE <<>>)

_identify_query_patterns(q) ==
       (IF Contains(q, "MATCH (") THEN <<"node matching">> ELSE <<>>)
    \o (IF Contains(q, "-[") /\ Contains(q, "]->")
        THEN <<"relationship traversal">> ELSE <<>>)
    \o (IF Contains(q, "WHERE") THEN <<"property filtering">> ELSE <<>>)
    \o (IF Contains(q, "ORDER BY") THEN <<"result sorting">> ELSE <<>>)
    \o (IF Contains(q, "LIMIT") THEN <<"result limiting">> ELSE <<>>)
    \o (IF Contains(q, "COUNT(") \/ Contains(q, "SUM(") \/ Contains(q, "AVG(")
        THEN <<"aggregation">> ELSE <<>>)
    \o (IF Contains(Upper(q), "UNION") THEN <<"query union">> ELSE <<>>)
    \o (IF Contains(Upper(q), "WITH") THEN <<"query chaining">> ELSE <<>>)

\* "; ".join(parts)
RECURSIVE Join(_)
Join(parts) ==
    IF Len(parts) = 0 THEN ""
    ELSE IF Len(parts) = 1 THEN parts[1]
    ELSE parts[1] \o "; " \o Join(Tail(parts))

\* mutant: AVG( counts as an aggregation as well
Mut_characteristics(q) ==
       (IF Contains(q, "MATCH (n)") /\ ~Contains(q, ":")
        THEN <<"Full database scan - will be slow on large datasets">> ELSE <<>>)
    \o (IF ~Contains(q, "WHERE")
        THEN <<"No filtering - may return large result sets">> ELSE <<>>)
    \o (IF ~Contains(q, "LIMIT")
        THEN <<"No result limiting - potential for memory issues">> ELSE <<>>)
    \o (IF Contains(q, "ORDER BY")
        THEN <<"Sorting operation - consider indexes on sorted properties">>
        ELSE <<>>)
    \o (IF Contains(q, "COUNT(") \/ Contains(q, "SUM(") \/ Contains(q, "AVG(")
        THEN <<"Aggregation operation - may be memory intensive">> ELSE <<>>)
    \o (IF Contains(Upper(q), "UNION")
        THEN <<"Query union - multiple result sets combined">> ELSE <<>>)

\* the list `characteristics` of _analyze_performance_characteristics
characteristics(q) ==
       (IF Contains(q, "MATCH (n)") /\ ~Contains(q, ":")
        THEN <<"Full database scan - will be slow on large datasets">> ELSE <<>>)
    \o (IF ~Contains(q, "WHERE")
        THEN <<"No filtering - may return large result sets">> ELSE <<>>)
    \o (IF ~Contains(q, "LIMIT")
        THEN <<"No result limiting - potential for memory issues">> ELSE <<>>)
    \o (IF Contains(q, "ORDER BY")
        THEN <<"Sorting operation - consider indexes on sorted properties">>
        ELSE <<>>)
    \o (IF Contains(q, "COUNT(") \/ Contains(q, "SUM(")
        THEN <<"Aggregation operation - may be memory intensive">> ELSE <<>>)
    \o (IF Contains(Upper(q), "UNION")
        THEN <<"Query union - multiple result sets combined">> ELSE <<>>)

_analyze_performance_characteristics(q) ==
    IF Len(characteristics(q)) > 0 THEN Join(characteristics(q))
    ELSE "Query appears well-structured"

(***************************************************************************)
(* Neo4jAnalyzer: analyze_query.                                           *)
(***************************************************************************)
\* the set built by _extract_performance_indicators before list() orders it
IndicatorSet(operator_data) ==
    UNION {{operator_data[i].performance_characteristics.performance_indicators[j]
            : j \in 1..Len(operator_data[i].performance_characteristics
                              .performance_indicators)}
           : i \in 1..Len(operator_data)}

\* list(indicators): the elements of the set, once each, in one of the orders
\* the iteration of a set of strings can take
RECURSIVE Orderings(_)
Orderings(S) ==
    IF S = {} THEN {<<>>}
    ELSE UNION {{<<x>> \o rest : rest \in Orderings(S \ {x})} : x \in S}

\* mutant: the indicators are collected in a list, duplicates kept
Mut_extract_performance_indicators(operator_data) ==
    {Flatten([i \in 1..Len(operator_data) |->
                 operator_data[i].performance_characteristics
                    .performance_indicators])}

\* the lists _extract_performance_indicators can return
_extract_performance_indicators(operator_data) ==
    Orderings(IndicatorSet(operator_data))

\* mutant: every record is counted
Mut_CountWhere(operator_data, field) == Len(operator_data)

\* len([op for op in operator_data if op[field]])
CountWhere(operator_data, field) ==
    Cardinality({i \in 1..Len(operator_data) : operator_data[i][field]})

\* analyze_query(query, operators) with the indicator list in the order
\* `indicators`; operators = None is given as the empty list
analyze_query(q, ops, indicators) ==
    LET operator_data == analyze_operators(ops, q)
    IN  [query |-> q,
         query_type |-> _classify_query_type(q),
         complexity |-> _assess_query_complexity(q),
         query_patterns |-> _identify_query_patterns(q),
         performance_characteristics |-> _analyze_performance_characteristics(q),
         operators |-> operator_data,
         summary |->
            [total_operators |-> Len(operator_data),
             leaf_operators |-> CountWhere(operator_data, "is_leaf"),
             updating_operators |-> CountWhere(operator_data, "is_updating"),
             eager_operators |-> CountWhere(operator_data, "is_eager"),
             estimated_total_rows |->
                SumSeq([i \in 1..Len(ops) |-> Get(ops[i], "estimated_rows", 0)]),
             estimated_db_hits |->
                SumSeq([i \in 1..Len(ops) |-> Get(ops[i], "db_hits", 0)])],
         performance_indicators |-> indicators,
         query_metadata |->
            [has_where_clause |-> Contains(q, "WHERE"),
             has_order_by |-> Contains(q, "ORDER BY"),
             has_limit |-> Contains(q, "LIMIT"),
             has_aggregation |->
                \E func \in {"COUNT(", "SUM(", "AVG(", "MIN(", "MAX("} :
                   Contains(Upper(q), func),
             has_relationships |-> Contains(q, "-[") /\ Contains(q, "]->")]]

(***************************************************************************)
(* Neo4jOptimizerAgent: plan walking.                                      *)
(***************************************************************************)
\* mutant: a node without estimated_rows or db_hits counts 1
RECURSIVE Mut_extract_recursive(_, _)
Mut_extract_recursive(node, depth) ==
    IF ~Truthy(node) THEN <<>>
    ELSE LET children == Get(node, "children", <<>>)
         IN  <<[operator |-> Get(node, "operatorType", Get(node, "operator", "")),
                estimated_rows |-> Get(node, "estimated_rows", 1),
                db_hits |-> Get(node, "db_hits", 1),
                depth |-> depth,
                args |-> Get(node, "args", EmptyDict),
                identifiers |-> Get(node, "identifiers", <<>>)]>>
             \o Flatten([i \in 1..Len(children) |->
                            Mut_extract_recursive(children[i], depth + 1)])

\* extract_recursive(node, depth): the records appended for node and below
RECURSIVE extract_recursive(_, _)
extract_recursive(node, depth) ==
    IF ~Truthy(node) THEN <<>>
    ELSE LET children == Get(node, "children", <<>>)
         IN  <<[operator |-> Get(node, "operatorType", Get(node, "operator", "")),
                estimated_rows |-> Get(node, "estimated_rows", 0),
                db_hits |-> Get(node, "db_hits", 0),
                depth |-> depth,
                args |-> Get(node, "args", EmptyDict),
                identifiers |-> Get(node, "identifiers", <<>>)]>>
             \o Flatten([i \in 1..Len(children) |->
                            extract_recursive(children[i], depth + 1)])

\* mutant: the depth is read from the node instead of counted
RECURSIVE Mut_extract_own_depth(_)
Mut_extract_own_depth(node) ==
    IF ~Truthy(node) THEN <<>>
    ELSE LET children == Get(node, "children", <<>>)
         IN  <<[operator |-> Get(node, "operatorType", Get(node, "operator", "")),
                estimated_rows |-> Get(node, "estimated_rows", 0),
                db_hits |-> Get(node, "db_hits", 0),
                depth |-> Get(node, "depth", 0),
                args |-> Get(node, "args", EmptyDict),
                identifiers |-> Get(node, "identifiers", <<>>)]>>
             \o Flatten([i \in 1..Len(children) |->
                            Mut_extract_own_depth(children[i])])

Mut_extract_operators_from_plan(p) == Mut_extract_own_depth(p)

_extract_operators_from_plan(p) ==
    IF Truthy(p) THEN extract_recursive(p, 0) ELSE <<>>

analyze_plan_issues(p, q) ==
    analyze_operators(_extract_operators_from_plan(p), q)

(***************************************************************************)
(* Neo4jOptimizerAgent: plan comparison.                                   *)
(***************************************************************************)
\* d[k] = v on a dict
Put(d, k, v) == [x \in DOMAIN d \cup {k} |-> IF x = k THEN v ELSE d[x]]

\* mutant: an operator seen again is set to 1 instead of incremented
RECURSIVE Mut_count_operators(_, _)
RECURSIVE Mut_CountChildren(_, _)
Mut_count_operators(p, operator_counts) ==
    IF Truthy(p)
    THEN Mut_CountChildren(Get(p, "children", <<>>),
                           Put(operator_counts, Get(p, "operator", "Unknown"), 1))
    ELSE operator_counts

Mut_CountChildren(children, operator_counts) ==
    IF Len(children) = 0 THEN operator_counts
    ELSE Mut_CountChildren(Tail(children),
                           Mut_count_operators(Head(children), operator_counts))

\* mutant: a node is counted under the name the extractor gives it
RECURSIVE Mut_count_by_type(_, _)
RECURSIVE Mut_CountChildrenByType(_, _)
Mut_count_by_type(p, operator_counts) ==
    IF Truthy(p)
    THEN LET op == Get(p, "operatorType", Get(p, "operator", "Unknown"))
         IN  Mut_CountChildrenByType(Get(p, "children", <<>>),
                           Put(operator_counts, op, Get(operator_counts, op, 0) + 1))
    ELSE operator_counts

Mut_CountChildrenByType(children, operator_counts) ==
    IF Len(children) = 0 THEN operator_counts
    ELSE Mut_CountChildrenByType(Tail(children),
                       Mut_count_by_type(Head(children), operator_counts))

\* count_operators(plan, operator_counts); CountChildren is its `for` loop
RECURSIVE count_operators(_, _)
RECURSIVE CountChildren(_, _)
count_operators(p, operator_counts) ==
    IF Truthy(p)
    THEN LET op == Get(p, "operator", "Unknown")
         IN  CountChildren(Get(p, "children", <<>>),
                           Put(operator_counts, op, Get(operator_counts, op, 0) + 1))
    ELSE operator_counts

CountChildren(children, operator_counts) ==
    IF Len(children) = 0 THEN operator_counts
    ELSE CountChildren(Tail(children),
                       count_operators(Head(children), operator_counts))

\* mutant: the children are added without descending into them
Mut_estimate_total_rows(p) ==
    IF ~Truthy(p) THEN 0
    ELSE LET children == Get(p, "children", <<>>)
         IN  Get(p, "estimated_rows", 0)
             + SumSeq([i \in 1..Len(children) |->
                          Get(children[i], "estimated_rows", 0)])

RECURSIVE estimate_total_rows(_)
estimate_total_rows(p) ==
    IF ~Truthy(p) THEN 0
    ELSE LET children == Get(p, "children", <<>>)
         IN  Get(p, "estimated_rows", 0)
             + SumSeq([i \in 1..Len(children) |-> estimate_total_rows(children[i])])

MsgFullScans == "Reduced full database scans"
MsgCartesian == "Eliminated cartesian products"
MsgRelScans == "Reduced relationship scans"
MsgLabelScans == "Added efficient label-based scans"
MsgIndexScans == "Utilized index scans"
MsgLimit == "Added result limiting"
MsgFallback == "Query structure maintained with minor optimizations"

\* mutant: the index-scan check is made before the label-scan check
Mut_ImprovementList(orig, opt) ==
       (IF Get(orig, "AllNodesScan", 0) > Get(opt, "AllNodesScan", 0)
        THEN <<MsgFullScans>> ELSE <<>>)
    \o (IF Get(orig, "CartesianProduct", 0) > Get(opt, "CartesianProduct", 0)
        THEN <<MsgCartesian>> ELSE <<>>)
    \o (IF Get(orig, "DirectedAllRelationshipsScan", 0)
           > Get(opt, "DirectedAllRelationshipsScan", 0)
        THEN <<MsgRelScans>> ELSE <<>>)
    \o (IF Get(opt, "NodeIndexScan", 0) > Get(orig, "NodeIndexScan", 0)
        THEN <<MsgIndexScans>> ELSE <<>>)
    \o (IF Get(opt, "NodeByLabelScan", 0) > Get(orig, "NodeByLabelScan", 0)
        THEN <<MsgLabelScans>> ELSE <<>>)
    \o (IF Get(opt, "Limit", 0) > Get(orig, "Limit", 0)
        THEN <<MsgLimit>> ELSE <<>>)

\* the list after the six `if` statements of _identify_improvements
ImprovementList(orig, opt) ==
       (IF Get(orig, "AllNodesScan", 0) > Get(opt, "AllNodesScan", 0)
        THEN <<MsgFullScans>> ELSE <<>>)
    \o (IF Get(orig, "CartesianProduct", 0) > Get(opt, "CartesianProduct", 0)
        THEN <<MsgCartesian>> ELSE <<>>)
    \o (IF Get(orig, "DirectedAllRelationshipsScan", 0)
           > Get(opt, "DirectedAllRelationshipsScan", 0)
        THEN <<MsgRelScans>> ELSE <<>>)
    \o (IF Get(opt, "NodeByLabelScan", 0) > Get(orig, "NodeByLabelScan", 0)
        THEN <<MsgLabelScans>> ELSE <<>>)
    \o (IF Get(opt, "NodeIndexScan", 0) > Get(orig, "NodeIndexScan", 0)
        THEN <<MsgIndexScans>> ELSE <<>>)
    \o (IF Get(opt, "Limit", 0) > Get(orig, "Limit", 0)
        THEN <<MsgLimit>> ELSE <<>>)

\* mutant: the fallback message is appended unconditionally
Mut_identify_improvements(orig, opt) ==
    ImprovementList(orig, opt) \o <<MsgFallback>>

_identify_improvements(orig, opt) ==
    IF Len(ImprovementList(orig, opt)) = 0 THEN <<MsgFallback>>
    ELSE ImprovementList(orig, opt)

compare_plans(original_plan, optimized_plan) ==
    LET orig == count_operators(original_plan, EmptyDict)
        opt == count_operators(optimized_plan, EmptyDict)
    IN  [original_operators |-> orig,
         optimized_operators |-> opt,
         original_estimated_rows |-> estimate_total_rows(original_plan),
         optimized_estimated_rows |-> estimate_total_rows(optimized_plan),
         improvements |-> _identify_improvements(orig, opt)]

(***************************************************************************)
(* Inputs: plan trees.  A node is a dict of its fields; the fields below   *)
(* are those a node of a tree is built from, children added by WithChildren.*)
(***************************************************************************)
NodeScan == [operator |-> "AllNodesScan", estimated_rows |-> 1000,
             db_hits |-> 1000, depth |-> 0]
NodeFilter == [operator |-> "Filter", estimated_rows |-> 100,
               db_hits |-> 0, depth |-> 1]
NodeUnrecognized == [operator |-> "Sorter", db_hits |-> 15000]
NodeTyped == [operatorType |-> "NodeIndexScan", operator |-> "Filter",
              estimated_rows |-> 100001, db_hits |-> 10000, depth |-> 5,
              args |-> [Details |-> "n"], identifiers |-> <<"n">>]
NodeNameless == [estimated_rows |-> 20000, db_hits |-> 10001]
NodeTagged == [operator |-> "CartesianProduct@neo4j", estimated_rows |-> 10001,
               db_hits |-> 20000, identifiers |-> <<"n", "m">>]

NodeFields == {NodeScan, NodeFilter, NodeUnrecognized, NodeTyped, NodeNameless,
               NodeTagged}

WithChildren(f, cs) ==
    [k \in DOMAIN f \cup {"children"} |-> IF k = "children" THEN cs ELSE f[k]]

\* the trees with exactly n nodes, and the child lists with n nodes in all;
\* a leaf comes without a "children" key, with an empty list, or is an empty dict
RECURSIVE TreesOfSize(_)
RECURSIVE ForestsOfSize(_)
TreesOfSize(n) ==
    IF n = 1
    THEN NodeFields \cup {EmptyDict}
         \cup {WithChildren(f, <<>>) : f \in {NodeScan, NodeFilter}}
    ELSE {WithChildren(f, cs) : f \in NodeFields, cs \in ForestsOfSize(n - 1)}

ForestsOfSize(n) ==
    IF n = 0 THEN {<<>>}
    ELSE UNION {{<<t>> \o rest : t \in TreesOfSize(k), rest \in ForestsOfSize(n - k)}
                : k \in 1..n}

Plans == UNION {TreesOfSize(n) : n \in 1..MaxNodes}

\* the second plan of a comparison
PartnerPlans ==
    {[operator |-> "NodeByLabelScan", estimated_rows |-> 100, children |-> <<>>],
     WithChildren(NodeScan, <<WithChildren(NodeFilter, <<>>), EmptyDict>>)}

(***************************************************************************)
(* Specification of the plan operations: a plan tree is given, and one of  *)
(* the agent's operations is called on it.                                 *)
(***************************************************************************)
NoValue == <<>>

\* no object has been created
NoHeap ==
    /\ heap = NoValue
    /\ heap_before = NoValue
    /\ inputs = NoValue
    /\ returned = NoValue

\* none of the conversion, rewriter, repeated-call and tool-call state is set
NoCall ==
    /\ plan_obj = NoValue
    /\ plan_dict = NoValue
    /\ optimized_query = ""
    /\ scratch = NoValue
    /\ issues2 = NoValue
    /\ calls = 0
    /\ request = NoValue
    /\ driver = NoValue
    /\ database = NoValue
    /\ log = NoValue
    /\ plan_data = NoValue
    /\ response = NoValue

InitPlan ==
    /\ NoHeap
    /\ pc = "start"
    /\ plan \in Plans
    /\ plan2 = NoValue
    /\ operators = NoValue
    /\ issues = NoValue
    /\ comparison = NoValue
    /\ original_ops = NoValue
    /\ optimized_ops = NoValue
    /\ improvements = NoValue
    /\ opname = ""
    /\ classified = NoValue
    /\ query = "MATCH (n) RETURN n"
    /\ query_type = ""
    /\ complexity = ""
    /\ query_patterns = NoValue
    /\ performance_characteristics = ""
    /\ analysis = NoValue
    /\ NoCall

ExtractOperators ==
    /\ UNCHANGED heapvars
    /\ pc = "start"
    /\ operators' = _extract_operators_from_plan(plan)
    /\ pc' = "extracted"
    /\ UNCHANGED callvars
    /\ UNCHANGED <<plan, plan2, issues, comparison, original_ops, optimized_ops,
                   improvements, opname, classified, query, textvars, analysis>>

AnalyzePlanIssues ==
    /\ UNCHANGED heapvars
    /\ pc = "start"
    /\ issues' = analyze_plan_issues(plan, query)
    /\ pc' = "analyzed"
    /\ UNCHANGED callvars
    /\ UNCHANGED <<plan, plan2, operators, comparison, original_ops, optimized_ops,
                   improvements, opname, classified, query, textvars, analysis>>

ComparePlans ==
    /\ UNCHANGED heapvars
    /\ pc = "start"
    /\ \E p2 \in PartnerPlans :
          /\ plan2' = p2
          /\ comparison' = compare_plans(plan, p2)
    /\ pc' = "compared"
    /\ UNCHANGED callvars
    /\ UNCHANGED <<plan, operators, issues, original_ops, optimized_ops,
                   improvements, opname, classified, query, textvars, analysis>>

NextPlan == ExtractOperators \/ AnalyzePlanIssues \/ ComparePlans

SpecPlan == InitPlan /\ [][NextPlan]_vars

(***************************************************************************)
(* Positions of a plan tree, used to state the claims about plan walking   *)
(* independently of the recursion of the code.  A position is the sequence *)
(* of child indices leading from the root to a node.                       *)
(***************************************************************************)
ChildrenOf(node) == Get(node, "children", <<>>)

RECURSIVE Positions(_)
Positions(node) ==
    {<<>>} \cup UNION {{<<i>> \o pos : pos \in Positions(ChildrenOf(node)[i])}
                       : i \in 1..Len(ChildrenOf(node))}

RECURSIVE NodeAt(_, _)
NodeAt(node, pos) ==
    IF Len(pos) = 0 THEN node ELSE NodeAt(ChildrenOf(node)[Head(pos)], Tail(pos))

\* the positions holding a node with at least one field
NonEmptyPositions(p) == {pos \in Positions(p) : Truthy(NodeAt(p, pos))}

\* pos comes before other in pre-order: an ancestor first, then left to right
Before(pos, other) ==
    \/ Len(pos) < Len(other) /\ SubSeq(other, 1, Len(pos)) = pos
    \/ \E i \in 1..Len(pos) :
          /\ i <= Len(other)
          /\ SubSeq(pos, 1, i - 1) = SubSeq(other, 1, i - 1)
          /\ pos[i] < other[i]

\* the pre-order index of a non-empty position among the non-empty ones
Rank(p, pos) == 1 + Cardinality({other \in NonEmptyPositions(p) : Before(other, pos)})

RECURSIVE SetSum(_, _)
SetSum(S, f) ==
    IF S = {} THEN 0
    ELSE LET x == CHOOSE x \in S : TRUE IN f[x] + SetSum(S \ {x}, f)

\* sum of the values of a histogram
HistSum(h) == SetSum(DOMAIN h, h)

HasEmptyChild(p) == \E pos \in Positions(p) : Len(pos) > 0 /\ ~Truthy(NodeAt(p, pos))

OperatorInfoKeys ==
    {"operator", "clean_operator", "estimated_rows", "db_hits", "depth", "args",
     "identifiers", "is_leaf", "is_updating", "is_eager",
     "performance_characteristics"}

\* the name _extract_operators_from_plan reports for a node
ReportedName(node) ==
    IF "operatorType" \in DOMAIN node THEN node.operatorType
    ELSE IF "operator" \in DOMAIN node THEN node.operator ELSE ""

CleanName(name) ==
    IF \E i \in 1..Len(name) : SubSeq(name, i, i) = "@"
    THEN SubSeq(name, 1, (CHOOSE i \in 1..Len(name) :
                             /\ SubSeq(name, i, i) = "@"
                             /\ \A j \in 1..(i - 1) : SubSeq(name, j, j) # "@") - 1)
    ELSE name

\* the identity-branch rule table of the specification (section 4.4)
TableSeverity(clean, rows) ==
    IF clean \in {"AllNodesScan", "CartesianProduct", "DirectedAllRelationshipsScan"}
    THEN "Critical"
    ELSE IF clean \in {"NodeByLabelScan", "NodeIndexScan"} THEN "High"
    ELSE IF clean = "Expand" /\ rows > 10000 THEN "High"
    ELSE IF clean \in {"Filter", "Aggregate", "Limit", "NodeHashJoin",
                       "NodeLeftHashJoin"} /\ rows > 10000 THEN "Medium"
    ELSE IF clean \in {"Sort", "Unwind", "Skip"} /\ rows > 1000 THEN "Medium"
    ELSE IF clean = "Apply" THEN "Medium"
    ELSE "none"

\* element r of a result is a finding of the given severity for a node
IsFinding(r, sev, node, pos) ==
    /\ "severity" \in DOMAIN r
    /\ r.severity = sev
    /\ r.operator = ReportedName(node)
    /\ r.depth = Len(pos)

C3_SumIsNodeCount ==
    pc = "compared" /\ Truthy(plan) =>
       HistSum(comparison.original_operators) = Cardinality(Positions(plan))

\* C3 (amended): the values of the histogram of count_operators sum to the
\* number of non-empty nodes of the tree; an empty mapping among the children
\* (or as the plan) is skipped and counted under no operator.
C3_SumIsNonEmptyNodeCount ==
    pc = "compared" =>
       /\ HistSum(comparison.original_operators)
            = Cardinality(NonEmptyPositions(plan))
       /\ HistSum(comparison.optimized_operators)
            = Cardinality(NonEmptyPositions(plan2))

C3_Witness ==
    /\ pc = "compared"
    /\ HasEmptyChild(plan)
    /\ HistSum(comparison.original_operators) = 2
    /\ Cardinality(DOMAIN comparison.original_operators) = 1

RowsAt(p) == [pos \in Positions(p) |-> Get(NodeAt(p, pos), "estimated_rows", 0)]

\* C4: estimate_total_rows is the sum of estimated_rows over every node of the
\* tree, the root included, a node without estimated_rows counting 0; the
\* root AllNodesScan(1000) with the child Filter(100) gives 1100.
C4_TotalRows ==
    pc = "compared" =>
       /\ comparison.original_estimated_rows = SetSum(Positions(plan), RowsAt(plan))
       /\ comparison.optimized_estimated_rows
            = SetSum(Positions(plan2), RowsAt(plan2))
       /\ plan = WithChildren(NodeScan, <<WithChildren(NodeFilter, <<>>)>>)
             => comparison.original_estimated_rows = 1100

C4_Witness ==
    /\ pc = "compared"
    /\ plan = WithChildren(NodeScan, <<WithChildren(NodeFilter, <<>>)>>)
    /\ comparison.original_estimated_rows = 1100
    /\ comparison.original_operators = [AllNodesScan |-> 1, Filter |-> 1]

(***************************************************************************)
(* Claims about _extract_operators_from_plan.                              *)
(***************************************************************************)
\* record r reports the node at position pos of tree p
Reports(r, p, pos) ==
    /\ r.operator = ReportedName(NodeAt(p, pos))
    /\ r.estimated_rows = Get(NodeAt(p, pos), "estimated_rows", 0)
    /\ r.db_hits = Get(NodeAt(p, pos), "db_hits", 0)
    /\ r.depth = Len(pos)

\* C7 (as stated): the extraction lists the nodes in pre-order with depth 0 for
\* the root and parent's depth + 1 for a child, one record per node of the tree
\* (checked for plans whose root is not empty).
C7_OneRecordPerNode ==
    pc = "extracted" /\ Truthy(plan) =>
       /\ Len(operators) = Cardinality(Positions(plan))
       /\ \A pos \in NonEmptyPositions(plan) :
             Reports(operators[Rank(plan, pos)], plan, pos)

\* C7 (amended): the extraction lists the non-empty nodes in pre-order (a node
\* before its descendants, children left to right), with depth 0 for the root
\* and parent's depth + 1 for a child whatever `depth` the node carries; the
\* result has one record per non-empty node, an empty mapping having none.
C7_PreOrder ==
    /\ pc = "extracted" =>
          /\ Len(operators) = Cardinality(NonEmptyPositions(plan))
          /\ \A pos \in NonEmptyPositions(plan) :
                Reports(operators[Rank(plan, pos)], plan, pos)
    /\ pc = "analyzed" =>
          /\ Len(issues) = Cardinality(NonEmptyPositions(plan))
          /\ \A pos \in NonEmptyPositions(plan) :
                Reports(issues[Rank(plan, pos)], plan, pos)

\* a grandchild that carries depth 0 is reported with depth 2, after its
\* parent, and a second child after the first
C7_Witness ==
    /\ pc = "extracted"
    /\ Len(operators) = 3
    /\ <<1, 1>> \in Positions(plan)
    /\ Get(NodeAt(plan, <<1, 1>>), "depth", 7) = 0
    /\ operators[3].depth = 2
    /\ operators[2].depth = 1

(***************************************************************************)
(* Specification of _identify_improvements called on two histograms.       *)
(***************************************************************************)
HistNames == {"AllNodesScan", "CartesianProduct", "DirectedAllRelationshipsScan",
              "NodeByLabelScan", "NodeIndexScan", "Limit", "Filter"}

\* the histograms whose counts are positive and sum to at most MaxCount
Histograms ==
    UNION {{h \in [S -> 1..MaxCount] : HistSum(h) <= MaxCount}
           : S \in {T \in SUBSET HistNames : Cardinality(T) <= MaxCount}}

InitImprove ==
    /\ NoHeap
    /\ pc = "start"
    /\ original_ops \in Histograms
    /\ optimized_ops \in Histograms
    /\ plan = NoValue
    /\ plan2 = NoValue
    /\ operators = NoValue
    /\ issues = NoValue
    /\ comparison = NoValue
    /\ improvements = NoValue
    /\ opname = ""
    /\ classified = NoValue
    /\ query = ""
    /\ query_type = ""
    /\ complexity = ""
    /\ query_patterns = NoValue
    /\ performance_characteristics = ""
    /\ analysis = NoValue
    /\ NoCall

IdentifyImprovements ==
    /\ UNCHANGED heapvars
    /\ pc = "start"
    /\ improvements' = _identify_improvements(original_ops, optimized_ops)
    /\ pc' = "improved"
    /\ UNCHANGED callvars
    /\ UNCHANGED <<plan, plan2, operators, issues, comparison, original_ops,
                   optimized_ops, opname, classified, query, textvars, analysis>>

NextImprove == IdentifyImprovements

SpecImprove == InitImprove /\ [][NextImprove]_vars

\* the count of an operator in a histogram, an absent operator counting 0
CountOf(h, name) == IF name \in DOMAIN h THEN h[name] ELSE 0

\* the six statements in their order, each with its comparison
Statements == <<MsgFullScans, MsgCartesian, MsgRelScans, MsgLabelScans,
                MsgIndexScans, MsgLimit>>

Triggers(k, orig, opt) ==
    CASE k = 1 -> CountOf(orig, "AllNodesScan") > CountOf(opt, "AllNodesScan")
      [] k = 2 -> CountOf(orig, "CartesianProduct") > CountOf(opt, "CartesianProduct")
      [] k = 3 -> CountOf(orig, "DirectedAllRelationshipsScan")
                     > CountOf(opt, "DirectedAllRelationshipsScan")
      [] k = 4 -> CountOf(opt, "NodeByLabelScan") > CountOf(orig, "NodeByLabelScan")
      [] k = 5 -> CountOf(opt, "NodeIndexScan") > CountOf(orig, "NodeIndexScan")
      [] k = 6 -> CountOf(opt, "Limit") > CountOf(orig, "Limit")

Emitted(msg) == \E i \in 1..Len(improvements) : improvements[i] = msg

\* C5: each of the six statements is emitted exactly when its comparison of
\* the two histograms holds (an absent operator counting 0), independently of
\* the other five, and the emitted statements keep the order of the list.
C5_SixComparisons ==
    pc = "improved" =>
       /\ \A k \in 1..6 :
             Emitted(Statements[k]) <=> Triggers(k, original_ops, optimized_ops)
       /\ \A i \in 1..Len(improvements) :
             improvements[i] = MsgFallback
             \/ \E k \in 1..6 : improvements[i] = Statements[k]
       /\ \A i, j \in 1..Len(improvements) :
             i < j =>
                \A k, l \in 1..6 :
                   improvements[i] = Statements[k] /\ improvements[j] = Statements[l]
                      => k < l
       /\ (    original_ops = [AllNodesScan |-> 1, CartesianProduct |-> 1]
            /\ optimized_ops = [NodeByLabelScan |-> 1, Limit |-> 1])
          => improvements = <<MsgFullScans, MsgCartesian, MsgLabelScans, MsgLimit>>

C5_Witness ==
    /\ pc = "improved"
    /\ original_ops = [AllNodesScan |-> 1, CartesianProduct |-> 1]
    /\ optimized_ops = [NodeByLabelScan |-> 1, Limit |-> 1]
    /\ Len(improvements) = 4

\* C6: the improvements list is never empty; it is the single fallback message
\* exactly when none of the six comparisons holds, and the fallback message
\* never stands beside an improvement statement.
C6_Fallback ==
    pc = "improved" =>
       /\ Len(improvements) >= 1
       /\ improvements = <<MsgFallback>>
             <=> \A k \in 1..6 : ~Triggers(k, original_ops, optimized_ops)
       /\ Emitted(MsgFallback) => Len(improvements) = 1

C6_Witness ==
    /\ pc = "improved"
    /\ improvements = <<MsgFallback>>
    /\ CountOf(original_ops, "Limit") > CountOf(optimized_ops, "Limit")
    /\ CountOf(optimized_ops, "AllNodesScan") = 2

(***************************************************************************)
(* Specification of the three classifiers called on an operator name.      *)
(***************************************************************************)
NameFrags == {"My", "Eager", "Thing", "eager", "Filter", "Scan", "@", "Create"}

RECURSIVE NamesOfFrags(_)
NamesOfFrags(n) ==
    IF n = 0 THEN {""}
    ELSE {f \o rest : f \in NameFrags, rest \in NamesOfFrags(n - 1)}

OperatorNames ==
    leaf_operators \cup updating_operators \cup eager_operators
    \cup UNION {NamesOfFrags(n) : n \in 0..MaxNameFrags}

InitNames ==
    /\ NoHeap
    /\ pc = "start"
    /\ opname \in OperatorNames
    /\ plan = NoValue
    /\ plan2 = NoValue
    /\ operators = NoValue
    /\ issues = NoValue
    /\ comparison = NoValue
    /\ original_ops = NoValue
    /\ optimized_ops = NoValue
    /\ improvements = NoValue
    /\ classified = NoValue
    /\ query = ""
    /\ query_type = ""
    /\ complexity = ""
    /\ query_patterns = NoValue
    /\ performance_characteristics = ""
    /\ analysis = NoValue
    /\ NoCall

ClassifyOperator ==
    /\ UNCHANGED heapvars
    /\ pc = "start"
    /\ classified' = [is_leaf |-> _is_leaf_operator(opname),
                      is_updating |-> _is_updating_operator(opname),
                      is_eager |-> _is_eager_operator(opname)]
    /\ pc' = "classified"
    /\ UNCHANGED callvars
    /\ UNCHANGED <<plan, plan2, operators, issues, comparison, original_ops,
                   optimized_ops, improvements, opname, query, textvars, analysis>>

NextNames == ClassifyOperator

SpecNames == InitNames /\ [][NextNames]_vars

\* name has the five letters E a g e r in a row somewhere
HasEagerInside(name) ==
    \E i \in 1..Len(name) :
       /\ i + 4 <= Len(name)
       /\ SubSeq(name, i, i) = "E"
       /\ SubSeq(name, i + 1, i + 1) = "a"
       /\ SubSeq(name, i + 2, i + 2) = "g"
       /\ SubSeq(name, i + 3, i + 3) = "e"
       /\ SubSeq(name, i + 4, i + 4) = "r"

\* C8: is_leaf is membership of the leaf catalog, is_updating membership of
\* the updating catalog, is_eager membership of the six eager names or having
\* "Eager" inside; AllNodesScan is a leaf, Filter is not, CartesianProduct and
\* MyEagerThing are eager; any other name classifies false/false/false.
C8_Classifiers ==
    pc = "classified" =>
       /\ classified.is_leaf = (opname \in leaf_operators)
       /\ classified.is_updating = (opname \in updating_operators)
       /\ classified.is_eager =
             (\/ opname \in {"EagerAggregation", "EagerLimit", "EagerSort",
                             "EagerUnion", "ValueHashJoin", "CartesianProduct"}
              \/ HasEagerInside(opname))
       /\ opname = "AllNodesScan" => classified.is_leaf
       /\ opname = "Filter" => ~classified.is_leaf
       /\ opname \in {"CartesianProduct", "MyEagerThing"} => classified.is_eager
       /\ (    opname \notin leaf_operators \cup updating_operators \cup eager_operators
            /\ ~HasEagerInside(opname))
          => classified = [is_leaf |-> FALSE, is_updating |-> FALSE,
                           is_eager |-> FALSE]

C8_Witness ==
    /\ pc = "classified"
    /\ opname = "MyEagerThing"
    /\ classified = [is_leaf |-> FALSE, is_updating |-> FALSE, is_eager |-> TRUE]

(***************************************************************************)
(* Specification of analyze_query called on a flat list of operator        *)
(* records.                                                                *)
(***************************************************************************)
OperatorRecords ==
    NodeFields
    \cup {EmptyDict,
          [operator |-> "UndirectedAllRelationshipsScan", estimated_rows |-> 100000,
           db_hits |-> 10000, depth |-> 0],
          [operator |-> "EagerSort", estimated_rows |-> 100001, db_hits |-> 0],
          [operator |-> "NodeIndexSeek@neo4j", estimated_rows |-> 10, depth |-> 2],
          [operator |-> "Create", db_hits |-> 10001]}

RECURSIVE ListsOfLen(_)
ListsOfLen(n) ==
    IF n = 0 THEN {<<>>}
    ELSE {<<r>> \o rest : r \in OperatorRecords, rest \in ListsOfLen(n - 1)}

OperatorLists == UNION {ListsOfLen(n) : n \in 0..MaxOps}

InitAnalyze ==
    /\ NoHeap
    /\ pc = "start"
    /\ operators \in OperatorLists
    /\ query = "MATCH (n) RETURN n"
    /\ plan = NoValue
    /\ plan2 = NoValue
    /\ issues = NoValue
    /\ comparison = NoValue
    /\ original_ops = NoValue
    /\ optimized_ops = NoValue
    /\ improvements = NoValue
    /\ opname = ""
    /\ classified = NoValue
    /\ query_type = ""
    /\ complexity = ""
    /\ query_patterns = NoValue
    /\ performance_characteristics = ""
    /\ analysis = NoValue
    /\ NoCall

AnalyzeQuery ==
    /\ UNCHANGED heapvars
    /\ pc = "start"
    /\ \E indicators \in
             _extract_performance_indicators(analyze_operators(operators, query)) :
          analysis' = analyze_query(query, operators, indicators)
    /\ pc' = "query_analyzed"
    /\ UNCHANGED callvars
    /\ UNCHANGED <<plan, plan2, operators, issues, comparison, original_ops,
                   optimized_ops, improvements, opname, classified, query, textvars>>

NextAnalyze == AnalyzeQuery

SpecAnalyze == InitAnalyze /\ [][NextAnalyze]_vars

\* the indicators the claim gives an operator record
HasInside(name, word) ==
    \E i \in 1..Len(name) : i + Len(word) - 1 <= Len(name)
                            /\ SubSeq(name, i, i + Len(word) - 1) = word

RecordName(r) == IF "operator" \in DOMAIN r THEN r.operator ELSE "Unknown"

ClaimedIndicators(r) ==
    LET name == CleanName(RecordName(r))
        rows == IF "estimated_rows" \in DOMAIN r THEN r.estimated_rows ELSE 0
        hits == IF "db_hits" \in DOMAIN r THEN r.db_hits ELSE 0
    IN  {x \in {"high_row_count"} : rows > 100000}
        \cup {x \in {"high_db_hits"} : hits > 10000}
        \cup {x \in {"full_scan"} :
                 name \in {"AllNodesScan", "UndirectedAllRelationshipsScan"}}
        \cup {x \in {"cartesian_product"} : name = "CartesianProduct"}
        \cup {x \in {"index_usage"} : HasInside(name, "Index")}
        \cup {x \in {"eager_operation"} : HasInside(name, "Eager")}

\* C9: performance_indicators of analyze_query holds, once each, exactly the
\* indicators of the operator records: high_row_count iff estimated_rows >
\* 100000, high_db_hits iff db_hits > 10000, full_scan, cartesian_product,
\* index_usage and eager_operation by the operator name with its "@" suffix
\* stripped; it is empty when there are no operators.
C9_IndicatorUnion ==
    pc = "query_analyzed" =>
       LET ind == analysis.performance_indicators
       IN  /\ {ind[i] : i \in 1..Len(ind)}
                = UNION {ClaimedIndicators(operators[i]) : i \in 1..Len(operators)}
           /\ \A i, j \in 1..Len(ind) : ind[i] = ind[j] => i = j
           /\ Len(operators) = 0 => Len(ind) = 0

\* two records share high_db_hits, one has 100000 rows and 10000 hits
C9_Witness ==
    /\ pc = "query_analyzed"
    /\ Len(operators) = 2
    /\ operators[1] = NodeUnrecognized
    /\ Get(operators[2], "operator", "") = "Create"
    /\ analysis.performance_indicators = <<"high_db_hits">>

(***************************************************************************)
(* Specification of the query text classifier called on a query text.      *)
(***************************************************************************)
QueryFrags == {"CREATE", "DELETE", "REMOVE", "SET", "MERGE", "MATCH", "RETURN",
               "create ", "Match (n) return n"}

RECURSIVE QueriesOfFrags(_)
QueriesOfFrags(n) ==
    IF n = 0 THEN {""}
    ELSE {f \o rest : f \in QueryFrags, rest \in QueriesOfFrags(n - 1)}

Queries == UNION {QueriesOfFrags(n) : n \in 0..MaxQueryFrags}

InitQuery ==
    /\ NoHeap
    /\ pc = "start"
    /\ query \in Queries
    /\ plan = NoValue
    /\ plan2 = NoValue
    /\ operators = NoValue
    /\ issues = NoValue
    /\ comparison = NoValue
    /\ original_ops = NoValue
    /\ optimized_ops = NoValue
    /\ improvements = NoValue
    /\ opname = ""
    /\ classified = NoValue
    /\ query_type = ""
    /\ complexity = ""
    /\ query_patterns = NoValue
    /\ performance_characteristics = ""
    /\ analysis = NoValue
    /\ NoCall

ClassifyQueryType ==
    /\ UNCHANGED heapvars
    /\ pc = "start"
    /\ query_type' = _classify_query_type(query)
    /\ pc' = "typed"
    /\ UNCHANGED callvars
    /\ UNCHANGED <<plan, plan2, operators, issues, comparison, original_ops,
                   optimized_ops, improvements, opname, classified, query,
                   complexity, query_patterns, performance_characteristics,
                   analysis>>

NextQuery == ClassifyQueryType

SpecQuery == InitQuery /\ [][NextQuery]_vars

\* the query has the keyword inside, in whatever letter case
HasKeyword(q, word) == HasInside(Upper(q), word)

\* C10: the query type is decided by keyword presence in the upper-cased text,
\* first match wins: CREATE -> write; else DELETE or REMOVE -> delete; else
\* SET or MERGE -> update; else MATCH and RETURN -> read; else unknown.  A
\* query with CREATE is "write" whatever else it holds, and the letter case of
\* the query does not matter.
C10_QueryTypePrecedence ==
    pc = "typed" =>
       /\ HasKeyword(query, "CREATE") => query_type = "write"
       /\ ~HasKeyword(query, "CREATE")
          /\ (HasKeyword(query, "DELETE") \/ HasKeyword(query, "REMOVE"))
             => query_type = "delete"
       /\ ~HasKeyword(query, "CREATE") /\ ~HasKeyword(query, "DELETE")
          /\ ~HasKeyword(query, "REMOVE")
          /\ (HasKeyword(query, "SET") \/ HasKeyword(query, "MERGE"))
             => query_type = "update"
       /\ (\A w \in {"CREATE", "DELETE", "REMOVE", "SET", "MERGE"} :
              ~HasKeyword(query, w))
          => query_type = (IF HasKeyword(query, "MATCH") /\ HasKeyword(query, "RETURN")
                           THEN "read" ELSE "unknown")
       /\ query_type = _classify_query_type(Upper(query))

\* a lower-case create wins over DELETE and SET
C10_Witness ==
    /\ pc = "typed"
    /\ query = "DELETE" \o "create " \o "SET"
    /\ query_type = "write"

(***************************************************************************)
(* Specification of the query text assessments called on a query text:     *)
(* complexity, patterns and performance characteristics.                   *)
(***************************************************************************)
TextFrags == {"MATCH (n)",
              "MATCH (a:P)-[r]->(b)-[s]->(c)",
              "-[t]->()-[u]->()-[v]->()",
              " WHERE n.x = 1",
              " ORDER BY n.x",
              " LIMIT 5",
              " RETURN COUNT(n)",
              " with n RETURN SUM(n.x)",
              " RETURN AVG(n.x)",
              " union ",
              " case ",
              "[\n]"}

RECURSIVE TextsOfFrags(_)
TextsOfFrags(n) ==
    IF n = 0 THEN {""}
    ELSE {f \o rest : f \in TextFrags, rest \in TextsOfFrags(n - 1)}

Texts == UNION {TextsOfFrags(n) : n \in 0..MaxTextFrags}

InitText ==
    /\ NoHeap
    /\ pc = "start"
    /\ query \in Texts
    /\ plan = NoValue
    /\ plan2 = NoValue
    /\ operators = NoValue
    /\ issues = NoValue
    /\ comparison = NoValue
    /\ original_ops = NoValue
    /\ optimized_ops = NoValue
    /\ improvements = NoValue
    /\ opname = ""
    /\ classified = NoValue
    /\ query_type = ""
    /\ complexity = ""
    /\ query_patterns = NoValue
    /\ performance_characteristics = ""
    /\ analysis = NoValue
    /\ NoCall

AssessQueryComplexity ==
    /\ UNCHANGED heapvars
    /\ pc = "start"
    /\ complexity' = _assess_query_complexity(query)
    /\ pc' = "assessed"
    /\ UNCHANGED callvars
    /\ UNCHANGED <<plan, plan2, operators, issues, comparison, original_ops,
                   optimized_ops, improvements, opname, classified, query,
                   query_type, query_patterns, performance_characteristics,
                   analysis>>

IdentifyQueryPatterns ==
    /\ UNCHANGED heapvars
    /\ pc = "start"
    /\ query_patterns' = _identify_query_patterns(query)
    /\ pc' = "patterns_identified"
    /\ UNCHANGED callvars
    /\ UNCHANGED <<plan, plan2, operators, issues, comparison, original_ops,
                   optimized_ops, improvements, opname, classified, query,
                   query_type, complexity, performance_characteristics,
                   analysis>>

AnalyzePerformanceCharacteristics ==
    /\ UNCHANGED heapvars
    /\ pc = "start"
    /\ performance_characteristics' = _analyze_performance_characteristics(query)
    /\ pc' = "characterized"
    /\ UNCHANGED callvars
    /\ UNCHANGED <<plan, plan2, operators, issues, comparison, original_ops,
                   optimized_ops, improvements, opname, classified, query,
                   query_type, complexity, query_patterns, analysis>>

NextText ==
    \/ AssessQueryComplexity
    \/ IdentifyQueryPatterns
    \/ AnalyzePerformanceCharacteristics

SpecText == InitText /\ [][NextText]_vars

\* 1 when the text has the word inside exactly as written, else 0
Has(q, word) == IF HasInside(q, word) THEN 1 ELSE 0

\* the bracketed [...] matches of a text read left to right from index i:
\* outside a match a "[" that is closed on its line opens one, inside a match
\* the next "]" closes it
RECURSIVE ScanBrackets(_, _, _)
ScanBrackets(q, i, inside) ==
    IF i > Len(q) THEN 0
    ELSE IF inside
         THEN ScanBrackets(q, i + 1, SubSeq(q, i, i) # "]")
         ELSE IF /\ SubSeq(q, i, i) = "["
                 /\ \E j \in (i + 1)..Len(q) :
                       /\ SubSeq(q, j, j) = "]"
                       /\ \A k \in (i + 1)..j : SubSeq(q, k, k) # "\n"
              THEN 1 + ScanBrackets(q, i + 1, TRUE)
              ELSE ScanBrackets(q, i + 1, FALSE)

\* the score the claim gives a query
ClaimedScore(q) ==
      Has(q, "MATCH") + Has(q, "WHERE") + Has(q, "ORDER BY") + Has(q, "LIMIT")
    + 2 * (IF Has(q, "COUNT(") + Has(q, "SUM(") + Has(q, "AVG(") > 0
           THEN 1 ELSE 0)
    + 2 * Has(Upper(q), "UNION") + Has(Upper(q), "CASE") + Has(Upper(q), "WITH")
    + (IF ScanBrackets(q, 1, FALSE) < 3 THEN ScanBrackets(q, 1, FALSE) ELSE 3)

\* C11: the complexity of a query is "simple" iff its score is at most 2,
\* "medium" iff the score is 3 to 5 and "complex" iff it is above 5, the score
\* being 1 each for MATCH, WHERE, ORDER BY, LIMIT as written, 2 for any of
\* COUNT(, SUM(, AVG(, 2 for UNION, 1 for CASE and 1 for WITH in the upper-cased
\* text, plus the number of bracketed [...] matches counted up to 3 at most.
C11_ComplexityScore ==
    pc = "assessed" =>
       /\ complexity \in {"simple", "medium", "complex"}
       /\ complexity = "simple" <=> ClaimedScore(query) <= 2
       /\ complexity = "medium" <=> ClaimedScore(query) \in 3..5
       /\ complexity = "complex" <=> ClaimedScore(query) > 5

\* six relationships and nothing else but MATCH: the brackets count 3, the
\* score is 4 and the query is medium
C11_Witness ==
    /\ pc = "assessed"
    /\ query = "MATCH (n)" \o "-[t]->()-[u]->()-[v]->()"
    /\ ScanBrackets(query, 1, FALSE) = 3
    /\ complexity = "medium"

\* the warnings the claim gives a query, in the claimed order
ClaimedWarnings(q) ==
    <<[on |-> HasInside(q, "MATCH (n)") /\ ~HasInside(q, ":"),
       text |-> "Full database scan - will be slow on large datasets"],
      [on |-> ~HasInside(q, "WHERE"),
       text |-> "No filtering - may return large result sets"],
      [on |-> ~HasInside(q, "LIMIT"),
       text |-> "No result limiting - potential for memory issues"],
      [on |-> HasInside(q, "ORDER BY"),
       text |-> "Sorting operation - consider indexes on sorted properties"],
      [on |-> HasInside(q, "COUNT(") \/ HasInside(q, "SUM("),
       text |-> "Aggregation operation - may be memory intensive"],
      [on |-> HasInside(Upper(q), "UNION"),
       text |-> "Query union - multiple result sets combined"]>>

\* the texts of the checks from index k on that trigger, joined by "; "
RECURSIVE JoinTriggered(_, _, _)
JoinTriggered(w, k, first) ==
    IF k > Len(w) THEN ""
    ELSE IF w[k].on
         THEN (IF first THEN "" ELSE "; ") \o w[k].text
              \o JoinTriggered(w, k + 1, FALSE)
         ELSE JoinTriggered(w, k + 1, first)

\* C12: the performance characteristics are never the empty string: they are
\* "Query appears well-structured" iff none of the six checks triggers, and
\* otherwise the warnings of exactly the triggered checks joined by "; " in
\* the order full-scan, no-filtering, unbounded-result, sorting, aggregation,
\* union.
C12_Characteristics ==
    pc = "characterized" =>
       LET w == ClaimedWarnings(query)
           none == \A k \in 1..Len(w) : ~w[k].on
       IN  /\ performance_characteristics # ""
           /\ performance_characteristics = "Query appears well-structured"
                 <=> none
           /\ ~none => performance_characteristics = JoinTriggered(w, 1, TRUE)

\* a filtered, limited query with AVG( triggers no check; a bare MATCH (n)
\* triggers the first three
C12_Witness ==
    /\ pc = "characterized"
    /\ \/ /\ query = " WHERE n.x = 1" \o " LIMIT 5"
          /\ performance_characteristics = "Query appears well-structured"
       \/ /\ query = "MATCH (n)"
          /\ performance_characteristics =
                "Full database scan - will be slow on large datasets; "
                \o "No filtering - may return large result sets; "
                \o "No result limiting - potential for memory issues"

\* the patterns the claim names, in the claimed order, with their checks
ClaimedPatterns(q) ==
    <<[on |-> HasInside(q, "MATCH ("), text |-> "node matching"],
      [on |-> HasInside(q, "-[") /\ HasInside(q, "]->"),
       text |-> "relationship traversal"],
      [on |-> HasInside(q, "WHERE"), text |-> "property filtering"],
      [on |-> HasInside(q, "ORDER BY"), text |-> "result sorting"],
      [on |-> HasInside(q, "LIMIT"), text |-> "result limiting"],
      [on |-> HasInside(q, "COUNT(") \/ HasInside(q, "SUM(")
              \/ HasInside(q, "AVG("),
       text |-> "aggregation"],
      [on |-> HasInside(Upper(q), "UNION"), text |-> "query union"],
      [on |-> HasInside(Upper(q), "WITH"), text |-> "query chaining"]>>

\* C13: the pattern list has no duplicates, holds each of the eight patterns
\* iff its check holds, and the patterns present are in the order node
\* matching, relationship traversal, property filtering, result sorting,
\* result limiting, aggregation, query union, query chaining.
C13_Patterns ==
    pc = "patterns_identified" =>
       LET c == ClaimedPatterns(query)
           at(text) == {i \in 1..Len(query_patterns) : query_patterns[i] = text}
       IN  /\ \A i, j \in 1..Len(query_patterns) :
                 query_patterns[i] = query_patterns[j] => i = j
           /\ \A i \in 1..Len(query_patterns) :
                 \E k \in 1..Len(c) : c[k].text = query_patterns[i]
           /\ \A k \in 1..Len(c) : c[k].on <=> at(c[k].text) # {}
           /\ \A k, l \in 1..Len(c) :
                 k < l => \A i \in at(c[k].text), j \in at(c[l].text) : i < j

\* a traversal with a lower-case with and SUM(: four patterns, chaining last
C13_Witness ==
    /\ pc = "patterns_identified"
    /\ query = "MATCH (a:P)-[r]->(b)-[s]->(c)" \o " with n RETURN SUM(n.x)"
    /\ query_patterns = <<"node matching", "relationship traversal",
                          "aggregation", "query chaining">>

(***************************************************************************)
(* Neo4jOptimizerAgent._plan_to_dict.  A Python value is a record with its *)
(* kind: None, a dict (value), a list or str (value), or an object with    *)
(* the attributes it has (attrs).                                          *)
(***************************************************************************)
PyNone == [kind |-> "none"]
PyDict(d) == [kind |-> "dict", value |-> d]
PyList(l) == [kind |-> "list", value |-> l]
PyObject(attrs) == [kind |-> "object", attrs |-> attrs]

\* bool(plan)
PyTruthy(p) ==
    CASE p.kind = "none" -> FALSE
      [] p.kind = "dict" -> Truthy(p.value)
      [] p.kind = "list" -> Len(p.value) > 0
      [] OTHER -> TRUE

\* hasattr(plan, name)
hasattr(p, name) == p.kind = "object" /\ name \in DOMAIN p.attrs

\* getattr(plan, name, default)
getattr(p, name, default) == IF hasattr(p, name) THEN p.attrs[name] ELSE default

\* mutant: the row estimate is read under the key of the dict plans
RECURSIVE Mut_plan_to_dict(_)
Mut_plan_to_dict(p) ==
    IF ~PyTruthy(p) THEN EmptyDict
    ELSE IF hasattr(p, "operator_type")
    THEN LET children == getattr(p, "children", <<>>)
         IN  [operator |-> p.attrs.operator_type,
              args |-> IF hasattr(p, "arguments") THEN p.attrs.arguments
                       ELSE EmptyDict,
              estimated_rows |->
                 Get(getattr(p, "arguments", EmptyDict), "estimated_rows", 0),
              identifiers |-> getattr(p, "identifiers", <<>>),
              children |-> [i \in 1..Len(children) |->
                               Mut_plan_to_dict(children[i])]]
    ELSE IF p.kind = "dict" THEN p.value ELSE EmptyDict

\* mutant: the DbHits argument of a plan object is copied to db_hits
RECURSIVE Mut_plan_to_dict_hits(_)
Mut_plan_to_dict_hits(p) ==
    IF ~PyTruthy(p) THEN EmptyDict
    ELSE IF hasattr(p, "operator_type")
    THEN LET children == getattr(p, "children", <<>>)
         IN  [operator |-> p.attrs.operator_type,
              args |-> IF hasattr(p, "arguments") THEN p.attrs.arguments
                       ELSE EmptyDict,
              estimated_rows |->
                 Get(getattr(p, "arguments", EmptyDict), "EstimatedRows", 0),
              db_hits |-> Get(getattr(p, "arguments", EmptyDict), "DbHits", 0),
              identifiers |-> getattr(p, "identifiers", <<>>),
              children |-> [i \in 1..Len(children) |->
                               Mut_plan_to_dict_hits(children[i])]]
    ELSE IF p.kind = "dict" THEN p.value ELSE EmptyDict

RECURSIVE _plan_to_dict(_)
_plan_to_dict(p) ==
    IF ~PyTruthy(p) THEN EmptyDict
    ELSE IF hasattr(p, "operator_type")
    THEN LET children == getattr(p, "children", <<>>)
         IN  [operator |-> p.attrs.operator_type,
              args |-> IF hasattr(p, "arguments") THEN p.attrs.arguments
                       ELSE EmptyDict,
              estimated_rows |->
                 Get(getattr(p, "arguments", EmptyDict), "EstimatedRows", 0),
              identifiers |-> getattr(p, "identifiers", <<>>),
              children |-> [i \in 1..Len(children) |->
                               _plan_to_dict(children[i])]]
    ELSE IF p.kind = "dict" THEN p.value ELSE EmptyDict

(***************************************************************************)
(* Specification of the plan conversion called on what a driver can hand   *)
(* over: nothing, a dict, or a plan object.                                *)
(***************************************************************************)
\* a plan object with the attributes f and the children cs
ObjWithChildren(f, cs) ==
    PyObject([k \in DOMAIN f \cup {"children"} |->
                 IF k = "children" THEN cs ELSE f[k]])

ObjScan == [operator_type |-> "AllNodesScan",
            arguments |-> [EstimatedRows |-> 1000],
            identifiers |-> <<"n">>]
ObjFilter == [operator_type |-> "Filter",
              arguments |-> [Details |-> "n.x = 1"],
              identifiers |-> <<"n", "m">>]
ObjBare == [operator_type |-> "Limit"]

\* what a plan or a child of a plan object can be without children of its own
ObjLeaves ==
    {ObjWithChildren(ObjScan, <<>>), ObjWithChildren(ObjFilter, <<>>),
     PyObject(ObjBare), PyObject([name |-> "not a plan"]),
     PyNone, PyDict(EmptyDict), PyList(<<>>), PyList(<<"AllNodesScan">>),
     PyDict(NodeScan), PyDict(WithChildren(NodeFilter, <<NodeScan>>))}

RECURSIVE ObjTreesOfSize(_)
RECURSIVE ObjForestsOfSize(_)
ObjTreesOfSize(n) ==
    IF n = 1 THEN ObjLeaves
    ELSE {ObjWithChildren(f, cs) : f \in {ObjScan, ObjFilter},
                                   cs \in ObjForestsOfSize(n - 1)}

ObjForestsOfSize(n) ==
    IF n = 0 THEN {<<>>}
    ELSE UNION {{<<t>> \o rest : t \in ObjTreesOfSize(k),
                                 rest \in ObjForestsOfSize(n - k)}
                : k \in 1..n}

PlanObjects == UNION {ObjTreesOfSize(n) : n \in 1..MaxObjNodes}

\* nothing of the analyzer state is set
NoAnalysis ==
    /\ plan = NoValue
    /\ plan2 = NoValue
    /\ operators = NoValue
    /\ issues = NoValue
    /\ comparison = NoValue
    /\ original_ops = NoValue
    /\ optimized_ops = NoValue
    /\ improvements = NoValue
    /\ opname = ""
    /\ classified = NoValue
    /\ query_type = ""
    /\ complexity = ""
    /\ query_patterns = NoValue
    /\ performance_characteristics = ""
    /\ analysis = NoValue

analysisvars == <<plan, plan2, operators, issues, comparison, original_ops,
                  optimized_ops, improvements, opname, classified, query_type,
                  complexity, query_patterns, performance_characteristics,
                  analysis>>

InitConvert ==
    /\ NoHeap
    /\ pc = "start"
    /\ query = ""
    /\ NoAnalysis
    /\ plan_obj \in PlanObjects
    /\ plan_dict = NoValue
    /\ optimized_query = ""
    /\ scratch = NoValue
    /\ issues2 = NoValue
    /\ calls = 0
    /\ request = NoValue
    /\ driver = NoValue
    /\ database = NoValue
    /\ log = NoValue
    /\ plan_data = NoValue
    /\ response = NoValue

PlanToDict ==
    /\ UNCHANGED heapvars
    /\ pc = "start"
    /\ plan_dict' = _plan_to_dict(plan_obj)
    /\ pc' = "converted"
    /\ UNCHANGED analysisvars
    /\ UNCHANGED <<query, plan_obj, optimized_query, scratch, issues2, calls,
                   request, driver, database, log, plan_data, response>>

NextConvert == PlanToDict

SpecConvert == InitConvert /\ [][NextConvert]_vars

\* the object exposes operator_type
ObjectShaped(p) == p.kind = "object" /\ "operator_type" \in DOMAIN p.attrs

ObjChildren(p) ==
    IF "children" \in DOMAIN p.attrs THEN p.attrs.children ELSE <<>>

\* every node of the plan is an object exposing operator_type
RECURSIVE ObjectTree(_)
ObjectTree(p) ==
    /\ ObjectShaped(p)
    /\ \A i \in 1..Len(ObjChildren(p)) : ObjectTree(ObjChildren(p)[i])

\* the mapping d has the shape of the object tree p and its nodes carry the
\* object's operator_type, identifiers and row estimate
RECURSIVE SameShape(_, _)
SameShape(p, d) ==
    /\ {"operator", "identifiers", "estimated_rows", "children"} \subseteq DOMAIN d
    /\ d.operator = p.attrs.operator_type
    /\ "identifiers" \in DOMAIN p.attrs => d.identifiers = p.attrs.identifiers
    /\ d.estimated_rows =
          (IF "arguments" \in DOMAIN p.attrs
              /\ "EstimatedRows" \in DOMAIN p.attrs.arguments
           THEN p.attrs.arguments.EstimatedRows ELSE 0)
    /\ Len(d.children) = Len(ObjChildren(p))
    /\ \A i \in 1..Len(d.children) : SameShape(ObjChildren(p)[i], d.children[i])

\* C14: _plan_to_dict turns None and an empty input into the empty mapping, a
\* mapping into an equal mapping, and a plan made of objects exposing
\* operator_type into a mapping tree with the same number of children in the
\* same order at every level, every node carrying the object's operator_type
\* as operator, its identifiers, and arguments["EstimatedRows"] as
\* estimated_rows, 0 when that key is absent.
C14_PlanToDict ==
    pc = "converted" =>
       /\ plan_obj.kind = "none" => plan_dict = EmptyDict
       /\ plan_obj.kind \in {"dict", "list"} /\ plan_obj.value = <<>>
             => plan_dict = EmptyDict
       /\ plan_obj.kind = "dict" => plan_dict = plan_obj.value
       /\ ObjectTree(plan_obj) => SameShape(plan_obj, plan_dict)

\* a scan object over two children, one without EstimatedRows and one with
C14_Witness ==
    /\ pc = "converted"
    /\ plan_obj = ObjWithChildren(ObjScan, <<ObjWithChildren(ObjFilter, <<>>),
                                            ObjWithChildren(ObjScan, <<>>)>>)
    /\ plan_dict.estimated_rows = 1000
    /\ Len(plan_dict.children) = 2
    /\ plan_dict.children[1].operator = "Filter"
    /\ plan_dict.children[1].estimated_rows = 0
    /\ plan_dict.children[2].operator = "AllNodesScan"

(***************************************************************************)
(* Specification of the analyzer on malformed plans: the root lacks any    *)
(* subset of its fields, and so do its children.                           *)
(***************************************************************************)
FullNode == [operator |-> "Filter", estimated_rows |-> 500, db_hits |-> 20000,
             args |-> [Details |-> "n.x = 1"], identifiers |-> <<"n">>]

\* the node f with only the fields of `keys`
Restrict(f, keys) == [k \in keys |-> f[k]]

MalformedLeaves ==
    {EmptyDict, Restrict(FullNode, {"operator"}),
     Restrict(FullNode, {"estimated_rows", "db_hits", "args", "identifiers"}),
     WithChildren(FullNode, <<>>)}

RECURSIVE KidsOfLen(_)
KidsOfLen(n) ==
    IF n = 0 THEN {<<>>}
    ELSE {<<t>> \o rest : t \in MalformedLeaves, rest \in KidsOfLen(n - 1)}

MalformedPlans ==
    {Restrict(FullNode, keys) : keys \in SUBSET DOMAIN FullNode}
    \cup {WithChildren(Restrict(FullNode, keys), cs) :
             keys \in SUBSET DOMAIN FullNode,
             cs \in UNION {KidsOfLen(n) : n \in 0..MaxKids}}

InitMalformed ==
    /\ NoHeap
    /\ pc = "start"
    /\ plan \in MalformedPlans
    /\ plan2 = NoValue
    /\ operators = NoValue
    /\ issues = NoValue
    /\ comparison = NoValue
    /\ original_ops = NoValue
    /\ optimized_ops = NoValue
    /\ improvements = NoValue
    /\ opname = ""
    /\ classified = NoValue
    /\ query = "MATCH (n) RETURN n"
    /\ query_type = ""
    /\ complexity = ""
    /\ query_patterns = NoValue
    /\ performance_characteristics = ""
    /\ analysis = NoValue
    /\ NoCall

\* analyzer.analyze_query(query, agent._extract_operators_from_plan(plan)),
\* as the tools call it
AnalyzeQueryOfPlan ==
    /\ UNCHANGED heapvars
    /\ pc = "start"
    /\ LET ops == _extract_operators_from_plan(plan)
       IN  \E indicators \in
                _extract_performance_indicators(analyze_operators(ops, query)) :
              analysis' = analyze_query(query, ops, indicators)
    /\ pc' = "query_analyzed"
    /\ UNCHANGED callvars
    /\ UNCHANGED <<plan, plan2, operators, issues, comparison, original_ops,
                   optimized_ops, improvements, opname, classified, query, textvars>>

NextMalformed == AnalyzePlanIssues \/ ComparePlans \/ AnalyzeQueryOfPlan

SpecMalformed == InitMalformed /\ [][NextMalformed]_vars

\* the value the claim gives a field of a node: its own, or the default
FieldOr(node, field, default) ==
    IF field \in DOMAIN node THEN node[field] ELSE default

HitsAt(p) == [pos \in Positions(p) |-> FieldOr(NodeAt(p, pos), "db_hits", 0)]

\* C15: on a plan whose nodes lack any of operator, estimated_rows, db_hits,
\* args, identifiers, children, analyze_plan_issues, compare_plans and
\* analyze_query complete with a full result in which a missing
\* estimated_rows or db_hits counts 0 and a missing args, identifiers or
\* children counts as empty.
C15_TotalOverMalformed ==
    /\ pc = "analyzed" =>
          /\ Len(issues) = Cardinality(NonEmptyPositions(plan))
          /\ \A pos \in NonEmptyPositions(plan) :
                LET r == issues[Rank(plan, pos)]
                    n == NodeAt(plan, pos)
                IN  /\ DOMAIN r = OperatorInfoKeys
                    /\ r.estimated_rows = FieldOr(n, "estimated_rows", 0)
                    /\ r.db_hits = FieldOr(n, "db_hits", 0)
                    /\ r.args = FieldOr(n, "args", EmptyDict)
                    /\ r.identifiers = FieldOr(n, "identifiers", <<>>)
                    /\ "children" \notin DOMAIN n =>
                          \A other \in Positions(plan) :
                             Len(other) > Len(pos) =>
                                SubSeq(other, 1, Len(pos)) # pos
    /\ pc = "compared" =>
          /\ DOMAIN comparison = {"original_operators", "optimized_operators",
                                  "original_estimated_rows",
                                  "optimized_estimated_rows", "improvements"}
          /\ comparison.original_estimated_rows
                = SetSum(Positions(plan), RowsAt(plan))
          /\ HistSum(comparison.original_operators)
                = Cardinality(NonEmptyPositions(plan))
    /\ pc = "query_analyzed" =>
          /\ analysis.summary.total_operators
                = Cardinality(NonEmptyPositions(plan))
          /\ analysis.summary.estimated_total_rows
                = SetSum(Positions(plan), RowsAt(plan))
          /\ analysis.summary.estimated_db_hits
                = SetSum(Positions(plan), HitsAt(plan))
          /\ Len(analysis.operators) = Cardinality(NonEmptyPositions(plan))

\* a root with nothing but its children, over a child with nothing but its
\* operator: two records with every default
C15_Witness ==
    /\ pc = "analyzed"
    /\ plan = [children |-> <<[operator |-> "Filter"]>>]
    /\ Len(issues) = 2
    /\ issues[1].operator = "" /\ issues[1].estimated_rows = 0
    /\ issues[2].operator = "Filter" /\ issues[2].db_hits = 0
    /\ issues[2].identifiers = <<>>

(***************************************************************************)
(* Neo4jOptimizerAgent.generate_optimized_query.                           *)
(***************************************************************************)
Whitespace == {" ", "\t", "\n", "\r", "\f"}

\* s.strip()
RECURSIVE Strip(_)
Strip(s) ==
    IF Len(s) = 0 THEN s
    ELSE IF SubSeq(s, 1, 1) \in Whitespace THEN Strip(SubSeq(s, 2, Len(s)))
    ELSE IF SubSeq(s, Len(s), Len(s)) \in Whitespace
         THEN Strip(SubSeq(s, 1, Len(s) - 1))
    ELSE s

\* s.replace(old, new): every occurrence of old, left to right
RECURSIVE Replace(_, _, _)
Replace(s, old, new) ==
    IF Len(s) < Len(old) THEN s
    ELSE IF SubSeq(s, 1, Len(old)) = old
         THEN new \o Replace(SubSeq(s, Len(old) + 1, Len(s)), old, new)
    ELSE SubSeq(s, 1, 1) \o Replace(SubSeq(s, 2, Len(s)), old, new)

\* mutant: the label is added whatever else the query holds
Mut_LabelStep(optimized) ==
    IF Contains(optimized, "MATCH (n)")
    THEN Replace(optimized, "MATCH (n)", "MATCH (n:Node)")
    ELSE optimized

\* the first optimization: a label for the bare node pattern
LabelStep(optimized) ==
    IF Contains(optimized, "MATCH (n)") /\ ~Contains(optimized, ":")
    THEN Replace(optimized, "MATCH (n)", "MATCH (n:Node)")
    ELSE optimized

\* mutant: COUNT( is looked for in the query as written
Mut_LimitStep(optimized) ==
    IF ~Contains(Upper(optimized), "LIMIT") /\ ~Contains(optimized, "COUNT(")
    THEN optimized \o " LIMIT 1000"
    ELSE optimized

\* the second optimization: a default limit
LimitStep(optimized) ==
    IF ~Contains(Upper(optimized), "LIMIT") /\ ~Contains(Upper(optimized), "COUNT(")
    THEN optimized \o " LIMIT 1000"
    ELSE optimized

\* mutant: the label step is left out
Mut_generate_optimized_query(original_query, operator_data) ==
    LimitStep(Strip(original_query))

\* operator_data is not read
generate_optimized_query(original_query, operator_data) ==
    LimitStep(LabelStep(Strip(original_query)))

(***************************************************************************)
(* Specification of the rewriter called on a query text.                   *)
(***************************************************************************)
RewriteFrags == {"MATCH (n) RETURN n", "MATCH (n)", "MATCH (n:Person)",
                 " WHERE n.name = 'a:b'", " RETURN COUNT(n)", " RETURN count(n)",
                 " LIMIT 5", " limit 5", " RETURN n.x", "  "}

RECURSIVE RewritesOfFrags(_)
RewritesOfFrags(n) ==
    IF n = 0 THEN {""}
    ELSE {f \o rest : f \in RewriteFrags, rest \in RewritesOfFrags(n - 1)}

RewriteQueries == UNION {RewritesOfFrags(n) : n \in 0..MaxRewriteFrags}

InitRewrite ==
    /\ NoHeap
    /\ pc = "start"
    /\ query \in RewriteQueries
    /\ NoAnalysis
    /\ plan_obj = NoValue
    /\ plan_dict = NoValue
    /\ optimized_query = ""
    /\ scratch = NoValue
    /\ issues2 = NoValue
    /\ calls = 0
    /\ request = NoValue
    /\ driver = NoValue
    /\ database = NoValue
    /\ log = NoValue
    /\ plan_data = NoValue
    /\ response = NoValue

GenerateOptimizedQuery ==
    /\ UNCHANGED heapvars
    /\ pc = "start"
    /\ optimized_query' = generate_optimized_query(query, <<>>)
    /\ pc' = "rewritten"
    /\ UNCHANGED analysisvars
    /\ UNCHANGED <<query, plan_obj, plan_dict, scratch, issues2, calls, request,
                   driver, database, log, plan_data, response>>

NextRewrite == GenerateOptimizedQuery

SpecRewrite == InitRewrite /\ [][NextRewrite]_vars

\* the text between the first and the last character that is not white space
Trimmed(q) ==
    LET solid == {i \in 1..Len(q) : SubSeq(q, i, i) \notin Whitespace}
    IN  IF solid = {} THEN ""
        ELSE SubSeq(q, CHOOSE i \in solid : \A j \in solid : i <= j,
                       CHOOSE i \in solid : \A j \in solid : j <= i)

EndsWith(s, t) == Len(s) >= Len(t) /\ SubSeq(s, Len(s) - Len(t) + 1, Len(s)) = t

\* how many times the word starts in the text
Occurrences(s, word) ==
    Cardinality({i \in 1..Len(s) : i + Len(word) - 1 <= Len(s)
                                   /\ SubSeq(s, i, i + Len(word) - 1) = word})

\* the rewriter has put the default limit clause behind the query
LimitAppended ==
    /\ EndsWith(optimized_query, " LIMIT 1000")
    /\ Occurrences(Upper(optimized_query), "LIMIT")
          = Occurrences(Upper(query), "LIMIT") + 1

\* the result is the trimmed query but for added labels and an added limit
LimitKept ==
    Occurrences(Upper(optimized_query), "LIMIT")
       = Occurrences(Upper(query), "LIMIT")

\* C16 as stated: the default limit clause is appended exactly when the
\* trimmed query holds neither LIMIT in any letter case nor COUNT( as written;
\* a query with COUNT( gets no limit clause, a query with a LIMIT keeps its
\* own, and "MATCH (n) RETURN n" gets the label and the limit clause.
C16_LimitUnlessCountAsWritten ==
    pc = "rewritten" =>
       /\ LimitAppended <=> /\ ~HasInside(Upper(Trimmed(query)), "LIMIT")
                            /\ ~HasInside(Trimmed(query), "COUNT(")
       /\ ~LimitAppended => LimitKept
       /\ query = "MATCH (n) RETURN n"
             => optimized_query = "MATCH (n:Node) RETURN n LIMIT 1000"

\* C16: the default limit clause " LIMIT 1000" is appended exactly when the
\* trimmed query holds neither LIMIT nor COUNT( in any letter case: a query
\* with COUNT( or count( gets no limit clause, a query with a LIMIT keeps its
\* own, and "MATCH (n) RETURN n" becomes "MATCH (n:Node) RETURN n LIMIT 1000".
C16_LimitUnlessCount ==
    pc = "rewritten" =>
       /\ LimitAppended <=> /\ ~HasInside(Upper(Trimmed(query)), "LIMIT")
                            /\ ~HasInside(Upper(Trimmed(query)), "COUNT(")
       /\ HasInside(query, "COUNT(") => ~LimitAppended
       /\ ~LimitAppended => LimitKept
       /\ query = "MATCH (n) RETURN n"
             => optimized_query = "MATCH (n:Node) RETURN n LIMIT 1000"

\* a lower-case count( keeps the limit clause away
C16_Witness ==
    /\ pc = "rewritten"
    /\ query = "MATCH (n)" \o " RETURN count(n)"
    /\ optimized_query = "MATCH (n:Node) RETURN count(n)"

\* the rewriter has given every bare node pattern the placeholder label
Labelled ==
    /\ ~HasInside(optimized_query, "MATCH (n)")
    /\ Occurrences(optimized_query, "MATCH (n:Node)")
          = Occurrences(query, "MATCH (n)")

\* C17 as stated: "MATCH (n)" is replaced by "MATCH (n:Node)" exactly when it
\* is in the query, a ":" elsewhere in the query deciding nothing.
C17_LabelWhateverElse ==
    pc = "rewritten" =>
       /\ HasInside(query, "MATCH (n)") => Labelled
       /\ ~HasInside(query, "MATCH (n)")
             => ~HasInside(optimized_query, "MATCH (n:Node)")

\* C17, what the code does: "MATCH (n)" is replaced by "MATCH (n:Node)"
\* exactly when it is in the query and the query has no ":" anywhere; with a
\* ":" in another node pattern or in a string literal the query keeps its
\* bare node pattern.
C17_ColonAnywhereBlocks ==
    pc = "rewritten" =>
       /\ HasInside(query, "MATCH (n)") /\ ~HasInside(query, ":") => Labelled
       /\ HasInside(query, ":") \/ ~HasInside(query, "MATCH (n)")
             => /\ ~HasInside(optimized_query, "MATCH (n:Node)")
                /\ Occurrences(optimized_query, "MATCH (n)")
                      = Occurrences(query, "MATCH (n)")

\* a ":" in a string literal keeps the label away
C17_Witness ==
    /\ pc = "rewritten"
    /\ query = "MATCH (n)" \o " WHERE n.name = 'a:b'"
    /\ optimized_query = "MATCH (n) WHERE n.name = 'a:b' LIMIT 1000"

(***************************************************************************)
(* Specification of repeated analysis: two agents, a plan analyzed twice   *)
(* with other analysis calls in between.  scratch[a] is the list           *)
(* `operators` that the last _extract_operators_from_plan call on agent a  *)
(* built, and log the calls made so far.                                   *)
(***************************************************************************)
Agents == {"agent", "other_agent"}

\* mutant: the list of the call before is carried on
Mut_fresh_operators(previous) == previous

\* operators = []: every call starts its list anew
fresh_operators(previous) == <<>>

\* the list a call of _extract_operators_from_plan on plan p ends with
extracted_operators(previous, p) ==
    fresh_operators(previous) \o _extract_operators_from_plan(p)

\* the plan of the label scan among the partner plans
LabelScanPlan ==
    [operator |-> "NodeByLabelScan", estimated_rows |-> 100, children |-> <<>>]

RepeatPlans ==
    PartnerPlans \cup {NodeScan, WithChildren(NodeTyped, <<NodeTagged, NodeUnrecognized>>)}

InitRepeat ==
    /\ NoHeap
    /\ pc = "start"
    /\ plan \in RepeatPlans
    /\ plan2 = NoValue
    /\ operators = NoValue
    /\ issues = NoValue
    /\ comparison = NoValue
    /\ original_ops = NoValue
    /\ optimized_ops = NoValue
    /\ improvements = NoValue
    /\ opname = ""
    /\ classified = NoValue
    /\ query = "MATCH (n) RETURN n"
    /\ query_type = ""
    /\ complexity = ""
    /\ query_patterns = NoValue
    /\ performance_characteristics = ""
    /\ analysis = NoValue
    /\ plan_obj = NoValue
    /\ plan_dict = NoValue
    /\ optimized_query = ""
    /\ scratch = [a \in Agents |-> <<>>]
    /\ issues2 = NoValue
    /\ calls = 0
    /\ request = NoValue
    /\ driver = NoValue
    /\ database = NoValue
    /\ log = <<>>
    /\ plan_data = NoValue
    /\ response = NoValue

repeatfixed == <<plan, operators, original_ops, optimized_ops, improvements,
                 opname, classified, query, textvars, analysis, plan_obj,
                 plan_dict, optimized_query, request, driver, database,
                 plan_data, response>>

\* agent a: analyze_plan_issues(plan, query), the first time
FirstAnalysis(a) ==
    /\ UNCHANGED heapvars
    /\ pc = "start"
    /\ LET ops == extracted_operators(scratch[a], plan)
       IN  /\ scratch' = [scratch EXCEPT ![a] = ops]
           /\ issues' = analyze_operators(ops, query)
    /\ log' = Append(log, <<a, "analyze_plan_issues", plan>>)
    /\ pc' = "analyzed_once"
    /\ UNCHANGED <<plan2, comparison, issues2, calls>>
    /\ UNCHANGED repeatfixed

\* agent a: analyze_plan_issues on another plan, the result dropped
OtherAnalysis(a) ==
    /\ UNCHANGED heapvars
    /\ pc = "analyzed_once"
    /\ calls < MaxCalls
    /\ \E p \in PartnerPlans :
          /\ scratch' = [scratch EXCEPT ![a] = extracted_operators(scratch[a], p)]
          /\ log' = Append(log, <<a, "analyze_plan_issues", p>>)
    /\ calls' = calls + 1
    /\ UNCHANGED <<pc, plan2, issues, comparison, issues2>>
    /\ UNCHANGED repeatfixed

\* agent a: compare_plans(plan, p)
OtherComparison(a) ==
    /\ UNCHANGED heapvars
    /\ pc = "analyzed_once"
    /\ calls < MaxCalls
    /\ \E p \in PartnerPlans :
          /\ plan2' = p
          /\ comparison' = compare_plans(plan, p)
          /\ log' = Append(log, <<a, "compare_plans", p>>)
    /\ calls' = calls + 1
    /\ UNCHANGED <<pc, issues, scratch, issues2>>
    /\ UNCHANGED repeatfixed

\* agent a: analyze_plan_issues(plan, query), the second time
SecondAnalysis(a) ==
    /\ UNCHANGED heapvars
    /\ pc = "analyzed_once"
    /\ LET ops == extracted_operators(scratch[a], plan)
       IN  /\ scratch' = [scratch EXCEPT ![a] = ops]
           /\ issues2' = analyze_operators(ops, query)
    /\ log' = Append(log, <<a, "analyze_plan_issues", plan>>)
    /\ pc' = "analyzed_twice"
    /\ UNCHANGED <<plan2, issues, comparison, calls>>
    /\ UNCHANGED repeatfixed

NextRepeat ==
    \E a \in Agents :
       \/ FirstAnalysis(a)
       \/ OtherAnalysis(a)
       \/ OtherComparison(a)
       \/ SecondAnalysis(a)

SpecRepeat == InitRepeat /\ [][NextRepeat]_vars

\* C18: two analyze_plan_issues calls on the same plan and query return the
\* same records in the same order, whether made on the same agent or on two
\* agents and whatever analysis calls were made in between.
C18_NoHiddenState ==
    pc = "analyzed_twice" => issues2 = issues

\* both calls on one agent, with an analysis of another plan on that agent
\* and a comparison on the other agent in between
C18_Witness ==
    /\ pc = "analyzed_twice"
    /\ Len(log) = 4
    /\ log[1][1] = "agent" /\ log[4][1] = "agent"
    /\ log[2] = <<"agent", "analyze_plan_issues", LabelScanPlan>>
    /\ log[3][1] = "other_agent" /\ log[3][2] = "compare_plans"
    /\ Len(issues) = 3
    /\ issues2 = issues

(***************************************************************************)
(* MCP server: tools/call.  The texts of the tool results are given        *)
(* without the symbol they start with, and a report by its title line.     *)
(***************************************************************************)
\* mutant: the response is sent without the id of the request
Mut_error_response(request_id, error_message) ==
    [jsonrpc |-> "2.0",
     error |-> [code |-> -32603, message |-> error_message]]

error_response(request_id, error_message) ==
    [jsonrpc |-> "2.0", id |-> request_id,
     error |-> [code |-> -32603, message |-> error_message]]

\* the response of call_tool for the text a tool returned
tool_response(request_id, result) ==
    [jsonrpc |-> "2.0", id |-> request_id,
     result |-> [content |-> <<[type |-> "text", text |-> result]>>]]

PyInt(n) == [kind |-> "int", value |-> n]

\* mutant: a failing PROFILE request fails the whole call
Mut_get_query_plan(drv, answer, q) ==
    IF drv = "none"
    THEN [raised |-> TRUE, message |-> "Neo4j connection not available",
          requests |-> <<>>]
    ELSE IF answer.explain = "fail"
    THEN [raised |-> TRUE,
          message |-> "Failed to get query plan: " \o answer.error,
          requests |-> <<"EXPLAIN">>]
    ELSE IF answer.profile = "fail"
    THEN [raised |-> TRUE,
          message |-> "Failed to get query plan: " \o answer.error,
          requests |-> <<"EXPLAIN", "PROFILE">>]
    ELSE [raised |-> FALSE,
          requests |-> <<"EXPLAIN", "PROFILE">>,
          value |-> [explain_plan |-> _plan_to_dict(answer.plan),
                     profile_plan |-> PyDict(_plan_to_dict(answer.plan)),
                     execution_time |-> PyInt(answer.time),
                     query |-> q]]

\* get_query_plan(query) with the global driver drv and the database
\* answering as `answer` says: what it raises or returns, and the plan
\* requests it has sent
get_query_plan(drv, answer, q) ==
    IF drv = "none"
    THEN [raised |-> TRUE, message |-> "Neo4j connection not available",
          requests |-> <<>>]
    ELSE IF answer.explain = "fail"
    THEN [raised |-> TRUE,
          message |-> "Failed to get query plan: " \o answer.error,
          requests |-> <<"EXPLAIN">>]
    ELSE IF answer.profile = "fail"
    THEN [raised |-> FALSE,
          requests |-> <<"EXPLAIN", "PROFILE">>,
          value |-> [explain_plan |-> _plan_to_dict(answer.plan),
                     profile_plan |-> PyNone,
                     execution_time |-> PyNone,
                     query |-> q]]
    ELSE [raised |-> FALSE,
          requests |-> <<"EXPLAIN", "PROFILE">>,
          value |-> [explain_plan |-> _plan_to_dict(answer.plan),
                     profile_plan |-> PyDict(_plan_to_dict(answer.plan)),
                     execution_time |-> PyInt(answer.time),
                     query |-> q]]

\* the text a tool returns when its try block raises
failure_text(name, message) ==
    IF name = "optimize-neo4j-query"
    THEN "Error during optimization: " \o message
    ELSE "Error analyzing query: " \o message

\* the title line of the report a tool returns
report_text(name) ==
    IF name = "optimize-neo4j-query"
    THEN "# Neo4j Query Optimization Analysis"
    ELSE "# Query Plan Analysis"

(***************************************************************************)
(* Specification of a tools/call request: the request is read, an agent is *)
(* constructed, plans are requested from the database, and the report or   *)
(* the failure is sent back.                                               *)
(***************************************************************************)
ToolNames == {"optimize-neo4j-query", "analyze-query-plan", "no-such-tool"}

ToolArguments ==
    {EmptyDict, [database |-> "neo4j"], [query |-> ""],
     [query |-> "MATCH (n) RETURN n"],
     [query |-> "MATCH (n) RETURN count(n)", database |-> "neo4j"]}

RequestIds == {"req-1", "req-2"}

Requests ==
    {[id |-> i, name |-> n, arguments |-> a] :
        i \in RequestIds, n \in ToolNames, a \in ToolArguments}
    \cup {[id |-> i, name |-> n] : i \in RequestIds, n \in ToolNames}

\* what the database can answer to the plan requests of one get_query_plan
Answers ==
    {[explain |-> e, profile |-> p, error |-> "ServiceUnavailable",
      plan |-> pl, time |-> 12] :
        e \in {"ok", "fail"}, p \in {"ok", "fail"},
        pl \in {ObjWithChildren(ObjScan, <<>>), PyDict(LabelScanPlan)}}

InitTool ==
    /\ NoHeap
    /\ pc = "start"
    /\ query = ""
    /\ NoAnalysis
    /\ plan_obj = NoValue
    /\ plan_dict = NoValue
    /\ optimized_query = ""
    /\ scratch = NoValue
    /\ issues2 = NoValue
    /\ calls = 0
    /\ request \in Requests
    /\ driver \in {"none", "driver"}
    /\ database \in [configured : BOOLEAN, reachable : BOOLEAN, answers : {<<>>}]
    /\ log = <<>>
    /\ plan_data = NoValue
    /\ response = NoValue

toolfixed == <<operators, original_ops, optimized_ops,
               improvements, opname, classified, textvars, plan_obj,
               plan_dict, scratch, issues2, calls, request>>

\* mutant: the agent is constructed before the query is required
Mut_CallTool ==
    /\ UNCHANGED heapvars
    /\ pc = "start"
    /\ LET name == request.name
           arguments == Get(request, "arguments", EmptyDict)
       IN  IF name \notin {"optimize-neo4j-query", "analyze-query-plan"}
           THEN /\ response' = error_response(request.id, "Unknown tool: " \o name)
                /\ pc' = "done"
                /\ UNCHANGED <<query, log>>
           ELSE IF Get(arguments, "query", "") = ""
           THEN /\ response' = error_response(request.id, "Query is required")
                /\ log' = Append(log, "agent")
                /\ pc' = "done"
                /\ UNCHANGED query
           ELSE /\ query' = arguments.query
                /\ pc' = "construct"
                /\ UNCHANGED <<response, log>>
    /\ UNCHANGED <<driver, database, plan, plan2, plan_data, optimized_query,
                   issues, comparison, analysis>>
    /\ UNCHANGED toolfixed

\* call_tool up to the construction of the agent: the tool is looked up and
\* the query is required
CallTool ==
    /\ UNCHANGED heapvars
    /\ pc = "start"
    /\ LET name == request.name
           arguments == Get(request, "arguments", EmptyDict)
       IN  IF name \notin {"optimize-neo4j-query", "analyze-query-plan"}
           THEN /\ response' = error_response(request.id, "Unknown tool: " \o name)
                /\ pc' = "done"
                /\ UNCHANGED query
           ELSE IF Get(arguments, "query", "") = ""
           THEN /\ response' = error_response(request.id, "Query is required")
                /\ pc' = "done"
                /\ UNCHANGED query
           ELSE /\ query' = arguments.query
                /\ pc' = "construct"
                /\ UNCHANGED response
    /\ UNCHANGED <<driver, database, log, plan, plan2, plan_data,
                   optimized_query, issues, comparison, analysis>>
    /\ UNCHANGED toolfixed

\* agent = Neo4jOptimizerAgent(): the connection is set up, and a failure to
\* do so is put up with
ConstructAgent ==
    /\ UNCHANGED heapvars
    /\ pc = "construct"
    /\ driver' = IF database.configured THEN "driver" ELSE driver
    /\ log' = Append(log, "agent")
    /\ pc' = "get_plan"
    /\ UNCHANGED <<query, database, plan, plan2, plan_data, response,
                   optimized_query, issues, comparison, analysis>>
    /\ UNCHANGED toolfixed

\* original_plan_data / plan_data = agent.get_query_plan(query, database):
\* the tool ends with the failure text when the call raises
GetOriginalPlan ==
    /\ UNCHANGED heapvars
    /\ pc = "get_plan"
    /\ \E answer \in Answers :
          /\ ~database.reachable => answer.explain = "fail"
          /\ LET got == get_query_plan(driver, answer, query)
             IN  /\ log' = log \o got.requests
                 /\ database' = IF got.requests = <<>> THEN database
                                 ELSE [database EXCEPT
                                          !.answers = Append(@, answer)]
                 /\ IF got.raised
                    THEN /\ response' = tool_response(request.id,
                                           failure_text(request.name, got.message))
                         /\ pc' = "done"
                         /\ UNCHANGED <<plan, plan_data>>
                    ELSE /\ plan_data' = got.value
                         /\ plan' = got.value.explain_plan
                         /\ pc' = IF request.name = "optimize-neo4j-query"
                                  THEN "rewrite" ELSE "report"
                         /\ UNCHANGED response
    /\ UNCHANGED <<query, driver, plan2, optimized_query, issues, comparison,
                   analysis>>
    /\ UNCHANGED toolfixed

\* optimize_neo4j_query, steps 1 and 2: the original plan is analyzed and
\* the query rewritten
AnalyzeAndRewrite ==
    /\ UNCHANGED heapvars
    /\ pc = "rewrite"
    /\ issues' = analyze_plan_issues(plan, query)
    /\ optimized_query' = generate_optimized_query(query, issues')
    /\ log' = log \o <<"analyze", "rewrite">>
    /\ pc' = "get_optimized_plan"
    /\ UNCHANGED <<query, driver, database, plan, plan2, plan_data, response,
                   comparison, analysis>>
    /\ UNCHANGED toolfixed

\* optimized_plan_data = agent.get_query_plan(optimized_query, database)
GetOptimizedPlan ==
    /\ UNCHANGED heapvars
    /\ pc = "get_optimized_plan"
    /\ \E answer \in Answers :
          /\ ~database.reachable => answer.explain = "fail"
          /\ LET got == get_query_plan(driver, answer, optimized_query)
             IN  /\ log' = log \o got.requests
                 /\ database' = IF got.requests = <<>> THEN database
                                 ELSE [database EXCEPT
                                          !.answers = Append(@, answer)]
                 /\ IF got.raised
                    THEN /\ response' = tool_response(request.id,
                                           failure_text(request.name, got.message))
                         /\ pc' = "done"
                         /\ UNCHANGED <<plan2, plan_data>>
                    ELSE /\ plan_data' = got.value
                         /\ plan2' = got.value.explain_plan
                         /\ pc' = "compare"
                         /\ UNCHANGED response
    /\ UNCHANGED <<query, driver, plan, optimized_query, issues, comparison,
                   analysis>>
    /\ UNCHANGED toolfixed

\* mutant: the plans are handed to compare_plans in the other order
Mut_CompareAndReport ==
    /\ UNCHANGED heapvars
    /\ pc = "compare"
    /\ issues2' = analyze_plan_issues(plan2, optimized_query)
    /\ comparison' = compare_plans(plan2, plan)
    /\ LET ops == _extract_operators_from_plan(plan)
       IN  \E indicators \in
                _extract_performance_indicators(analyze_operators(ops, query)) :
              analysis' = analyze_query(query, ops, indicators)
    /\ log' = log \o <<"analyze", "compare", "analyze_query">>
    /\ response' = tool_response(request.id, report_text(request.name))
    /\ pc' = "done"
    /\ UNCHANGED <<query, driver, plan, plan2, plan_data, optimized_query, issues>>
    /\ UNCHANGED <<operators, original_ops, optimized_ops, improvements, opname,
                   classified, textvars, plan_obj, plan_dict, scratch, calls,
                   request, database>>

\* optimize_neo4j_query, steps 3 to 5: the optimized plan is analyzed, the
\* plans are compared, the query is analyzed and the report is returned
CompareAndReport ==
    /\ UNCHANGED heapvars
    /\ pc = "compare"
    /\ issues2' = analyze_plan_issues(plan2, optimized_query)
    /\ comparison' = compare_plans(plan, plan2)
    /\ LET ops == _extract_operators_from_plan(plan)
       IN  \E indicators \in
                _extract_performance_indicators(analyze_operators(ops, query)) :
              analysis' = analyze_query(query, ops, indicators)
    /\ log' = log \o <<"analyze", "compare", "analyze_query">>
    /\ response' = tool_response(request.id, report_text(request.name))
    /\ pc' = "done"
    /\ UNCHANGED <<query, driver, plan, plan2, plan_data, optimized_query, issues>>
    /\ UNCHANGED <<operators, original_ops, optimized_ops, improvements, opname,
                   classified, textvars, plan_obj, plan_dict, scratch, calls,
                   request, database>>

\* analyze_query_plan_only after the plan: the plan and the query are
\* analyzed and the report is returned
AnalyzeAndReport ==
    /\ UNCHANGED heapvars
    /\ pc = "report"
    /\ issues' = analyze_plan_issues(plan, query)
    /\ LET ops == _extract_operators_from_plan(plan)
       IN  \E indicators \in
                _extract_performance_indicators(analyze_operators(ops, query)) :
              analysis' = analyze_query(query, ops, indicators)
    /\ log' = log \o <<"analyze", "analyze_query">>
    /\ response' = tool_response(request.id, report_text(request.name))
    /\ pc' = "done"
    /\ UNCHANGED <<query, driver, database, plan, plan2, plan_data,
                   optimized_query, comparison>>
    /\ UNCHANGED toolfixed

NextTool ==
    \/ CallTool
    \/ ConstructAgent
    \/ GetOriginalPlan
    \/ AnalyzeAndRewrite
    \/ GetOptimizedPlan
    \/ CompareAndReport
    \/ AnalyzeAndReport

SpecTool == InitTool /\ [][NextTool]_vars

\* the request names one of the two tools
ForTool == request.name \in {"optimize-neo4j-query", "analyze-query-plan"}

\* the request has no query argument, or an empty one
QueryMissing ==
    \/ "arguments" \notin DOMAIN request
    \/ "query" \notin DOMAIN request.arguments
    \/ request.arguments.query = ""

\* C19: a tools/call for either tool without a query, or with an empty one,
\* never constructs an agent and never requests a plan, and ends at once with
\* an error response that carries the id of the request and the message
\* "Query is required"; no plan request is made afterwards either.
C19_QueryRequired ==
    ForTool /\ QueryMissing =>
       /\ log = <<>>
       /\ database.answers = <<>>
       /\ pc \in {"start", "done"}
       /\ pc = "done" =>
             /\ DOMAIN response = {"jsonrpc", "id", "error"}
             /\ response.id = request.id
             /\ response.error.message = "Query is required"

\* analyze-query-plan with an empty query
C19_Witness ==
    /\ pc = "done"
    /\ request = [id |-> "req-2", name |-> "analyze-query-plan",
                  arguments |-> [query |-> ""]]
    /\ response.error.message = "Query is required"
    /\ response.id = "req-2"
    /\ log = <<>>

Last(seq) == seq[Len(seq)]

CountIn(seq, x) == Cardinality({i \in 1..Len(seq) : seq[i] = x})

\* the last get_query_plan of the tool call failed: there was no driver, or
\* the database failed the EXPLAIN request
PlanFailed ==
    /\ ForTool /\ ~QueryMissing
    /\ pc = "done"
    /\ \/ driver = "none"
       \/ database.answers # <<>> /\ Last(database.answers).explain = "fail"

\* C20: when there is no driver or the EXPLAIN request fails, the tool call
\* ends there: no plan request, analysis, rewriting or comparison comes after
\* the failed one, every EXPLAIN request was sent once, and the caller gets
\* the failure text in place of a report.  A failing PROFILE request does not
\* fail the call: the EXPLAIN plan is returned with profile_plan and
\* execution_time None, and the tool goes on.
C20_PlanFailure ==
    /\ PlanFailed =>
          /\ Last(log) = (IF driver = "none" THEN "agent" ELSE "EXPLAIN")
          /\ CountIn(log, "EXPLAIN") = Len(database.answers)
          /\ \A i \in 1..(Len(database.answers) - 1) :
                database.answers[i].explain = "ok"
          /\ analysis = NoValue /\ comparison = NoValue
          /\ CountIn(log, "compare") = 0 /\ CountIn(log, "analyze_query") = 0
          /\ DOMAIN response = {"jsonrpc", "id", "result"}
          /\ LET text == response.result.content[1].text
                 cause == IF driver = "none" THEN "Neo4j connection not available"
                          ELSE Last(database.answers).error
             IN  /\ HasInside(text, cause)
                 /\ HasInside(text, "Error ")
                 /\ ~HasInside(text, "# ")
    /\ /\ pc \in {"rewrite", "report", "compare"}
       /\ Last(database.answers).profile = "fail"
       => /\ Last(database.answers).explain = "ok"
          /\ plan_data.profile_plan = PyNone
          /\ plan_data.execution_time = PyNone
          /\ plan_data.explain_plan = _plan_to_dict(Last(database.answers).plan)
    /\ pc = "done" /\ ForTool /\ ~QueryMissing /\ ~PlanFailed
       => response.result.content[1].text \in
             {"# Neo4j Query Optimization Analysis", "# Query Plan Analysis"}

\* the EXPLAIN request for the optimized query fails after the original
\* query went through with a failing PROFILE
C20_Witness ==
    /\ pc = "done"
    /\ request.name = "optimize-neo4j-query"
    /\ Len(database.answers) = 2
    /\ database.answers[1].profile = "fail"
    /\ database.answers[2].explain = "fail"
    /\ log = <<"agent", "EXPLAIN", "PROFILE", "analyze", "rewrite", "EXPLAIN">>
    /\ response.result.content[1].text
          = "Error during optimization: Failed to get query plan: ServiceUnavailable"

(***************************************************************************)
(* Object identity.  The dicts, lists and plan objects of a call live in   *)
(* `heap`, a sequence of objects addressed by position.  A field that      *)
(* holds a dict, a list or a plan object holds a reference to it, so that  *)
(* two fields can hold the same object; strings, numbers and booleans are  *)
(* held as such.  A call is given the heap and returns the heap it leaves  *)
(* together with its return value.                                         *)
(***************************************************************************)
Ref(a) == [kind |-> "ref", value |-> a]
PyStr(s) == [kind |-> "str", value |-> s]
PyBool(b) == [kind |-> "bool", value |-> b]

\* a dict display, a list display or a constructor call: a new object
new_object(h, obj) == [heap |-> Append(h, obj), value |-> Ref(Len(h) + 1)]

\* mutant: the value found under the key is copied into a new object
Mut_get_or_new(h, d, key, obj) ==
    IF key \in DOMAIN d THEN new_object(h, h[d[key].value])
    ELSE new_object(h, obj)

\* d.get(key, {}) and d.get(key, []): the object found under the key, else
\* the new object of the default
get_or_new(h, d, key, obj) ==
    IF key \in DOMAIN d THEN [heap |-> h, value |-> d[key]]
    ELSE new_object(h, obj)

\* operators.append(x) on the list at address a
list_append(h, a, x) == [h EXCEPT ![a] = PyList(Append(h[a].value, x))]

\* extract_recursive(node, depth) with the calls still to make in `todo`,
\* first to last; operator_list is the address of the list `operators`
RECURSIVE heap_extract_recursive(_, _, _)
heap_extract_recursive(h, todo, operator_list) ==
    IF todo = <<>> THEN h
    ELSE LET node == h[todo[1].node].value
             depth == todo[1].depth
         IN  IF ~Truthy(node)
             THEN heap_extract_recursive(h, Tail(todo), operator_list)
             ELSE LET args == get_or_new(h, node, "args", PyDict(EmptyDict))
                      identifiers == get_or_new(args.heap, node, "identifiers",
                                                PyList(<<>>))
                      record ==
                         new_object(identifiers.heap, PyDict(
                            [operator |-> Get(node, "operatorType",
                                              Get(node, "operator", PyStr(""))),
                             estimated_rows |-> Get(node, "estimated_rows", PyInt(0)),
                             db_hits |-> Get(node, "db_hits", PyInt(0)),
                             depth |-> PyInt(depth),
                             args |-> args.value,
                             identifiers |-> identifiers.value]))
                      children == IF "children" \in DOMAIN node
                                  THEN h[node["children"].value].value
                                  ELSE <<>>
                  IN  heap_extract_recursive(
                         list_append(record.heap, operator_list, record.value),
                         [i \in 1..Len(children) |->
                             [node |-> children[i].value, depth |-> depth + 1]]
                            \o Tail(todo),
                         operator_list)

\* _extract_operators_from_plan(plan), plan a reference to a dict
heap_extract_operators_from_plan(h, p) ==
    LET operator_list == new_object(h, PyList(<<>>))
    IN  IF Truthy(h[p.value].value)
        THEN [heap |-> heap_extract_recursive(
                          operator_list.heap,
                          <<[node |-> p.value, depth |-> 0]>>,
                          operator_list.value.value),
              value |-> operator_list.value]
        ELSE operator_list

\* the loop of analyze_operators from the i-th record on; operator_data is
\* the address of the list the records are appended to
RECURSIVE heap_operator_loop(_, _, _, _)
heap_operator_loop(h, ops, i, operator_data) ==
    IF i > Len(ops) THEN h
    ELSE LET op == h[ops[i].value].value
             operator == Get(op, "operator", PyStr("Unknown")).value
             clean_operator == IF Contains(operator, "@")
                               THEN SplitAtHead(operator) ELSE operator
             estimated_rows == Get(op, "estimated_rows", PyInt(0)).value
             db_hits == Get(op, "db_hits", PyInt(0)).value
             args == get_or_new(h, op, "args", PyDict(EmptyDict))
             identifiers == get_or_new(args.heap, op, "identifiers", PyList(<<>>))
             found == _get_operator_characteristics(clean_operator,
                                                    estimated_rows, db_hits)
             indicators ==
                new_object(identifiers.heap,
                           PyList([j \in 1..Len(found.performance_indicators) |->
                                      PyStr(found.performance_indicators[j])]))
             characteristics_dict ==
                new_object(indicators.heap, PyDict(
                   [operator_type |-> PyStr(found.operator_type),
                    estimated_rows |-> PyInt(found.estimated_rows),
                    db_hits |-> PyInt(found.db_hits),
                    performance_indicators |-> indicators.value]))
             operator_info ==
                new_object(characteristics_dict.heap, PyDict(
                   [operator |-> PyStr(operator),
                    clean_operator |-> PyStr(clean_operator),
                    estimated_rows |-> PyInt(estimated_rows),
                    db_hits |-> PyInt(db_hits),
                    depth |-> Get(op, "depth", PyInt(0)),
                    args |-> args.value,
                    identifiers |-> identifiers.value,
                    is_leaf |-> PyBool(_is_leaf_operator(clean_operator)),
                    is_updating |-> PyBool(_is_updating_operator(clean_operator)),
                    is_eager |-> PyBool(_is_eager_operator(clean_operator)),
                    performance_characteristics |-> characteristics_dict.value]))
         IN  heap_operator_loop(
                list_append(operator_info.heap, operator_data, operator_info.value),
                ops, i + 1, operator_data)

\* analyze_operators(operator_list, query), operator_list a reference to a list
heap_analyze_operators(h, ops, q) ==
    LET operator_data == new_object(h, PyList(<<>>))
    IN  [heap |-> heap_operator_loop(operator_data.heap, h[ops.value].value, 1,
                                     operator_data.value.value),
         value |-> operator_data.value]

\* analyze_plan_issues(plan, query)
heap_analyze_plan_issues(h, p, q) ==
    LET ops == heap_extract_operators_from_plan(h, p)
    IN  heap_analyze_operators(ops.heap, ops.value, q)

\* the value at a reference with the references followed: a dict as a
\* function, a list as a sequence, a plan object with its attributes
RECURSIVE Load(_, _)
Load(h, v) ==
    CASE v.kind = "none" -> PyNone
      [] v.kind = "ref" ->
            (LET obj == h[v.value]
             IN  IF obj.kind = "dict"
                 THEN [k \in DOMAIN obj.value |-> Load(h, obj.value[k])]
                 ELSE IF obj.kind = "list"
                 THEN [i \in 1..Len(obj.value) |-> Load(h, obj.value[i])]
                 ELSE PyObject([k \in DOMAIN obj.attrs |-> Load(h, obj.attrs[k])]))
      [] OTHER -> v.value

\* the object a value stands for: the object at a reference, else the value
Deref(h, v) == IF v.kind = "ref" THEN h[v.value] ELSE v

\* _plan_to_dict(plan), plan None or a reference
RECURSIVE heap_plan_to_dict(_, _)
RECURSIVE heap_convert_children(_, _, _, _)
heap_plan_to_dict(h, p) ==
    LET obj == Deref(h, p)
    IN  IF ~PyTruthy(obj) THEN new_object(h, PyDict(EmptyDict))
        ELSE IF hasattr(obj, "operator_type")
        THEN LET arguments == IF hasattr(obj, "arguments")
                              THEN h[obj.attrs.arguments.value].value
                              ELSE EmptyDict
                 args == new_object(h, PyDict(arguments))
                 identifiers ==
                    IF hasattr(obj, "identifiers")
                    THEN [heap |-> args.heap, value |-> obj.attrs.identifiers]
                    ELSE new_object(args.heap, PyList(<<>>))
                 children == new_object(identifiers.heap, PyList(<<>>))
                 converted ==
                    new_object(children.heap, PyDict(
                       [operator |-> obj.attrs.operator_type,
                        args |-> args.value,
                        estimated_rows |-> Get(arguments, "EstimatedRows", PyInt(0)),
                        identifiers |-> identifiers.value,
                        children |-> children.value]))
                 kids == IF hasattr(obj, "children")
                         THEN h[obj.attrs.children.value].value
                         ELSE <<>>
             IN  [heap |-> heap_convert_children(converted.heap, kids, 1,
                                                 children.value.value),
                  value |-> converted.value]
        ELSE IF obj.kind = "dict" THEN [heap |-> h, value |-> p]
        ELSE new_object(h, PyDict(EmptyDict))

\* the loop over the children of a plan object from the i-th child on;
\* children is the address of the list result["children"]
heap_convert_children(h, kids, i, children) ==
    IF i > Len(kids) THEN h
    ELSE LET child == heap_plan_to_dict(h, kids[i])
         IN  heap_convert_children(list_append(child.heap, children, child.value),
                                   kids, i + 1, children)

\* compare_plans(original_plan, optimized_plan): both histograms are built
\* in a new dict by count_operators, the messages in a new list
heap_compare_plans(h, original_plan, optimized_plan) ==
    LET found == compare_plans(Load(h, original_plan), Load(h, optimized_plan))
        counted(hist) == PyDict([k \in DOMAIN hist |-> PyInt(hist[k])])
        orig == new_object(h, counted(found.original_operators))
        opt == new_object(orig.heap, counted(found.optimized_operators))
        messages ==
           new_object(opt.heap,
                      PyList([i \in 1..Len(found.improvements) |->
                                 PyStr(found.improvements[i])]))
    IN  new_object(messages.heap, PyDict(
           [original_operators |-> orig.value,
            optimized_operators |-> opt.value,
            original_estimated_rows |-> PyInt(found.original_estimated_rows),
            optimized_estimated_rows |-> PyInt(found.optimized_estimated_rows),
            improvements |-> messages.value]))

\* analyze_query(query, operators) with the indicator list in the order
\* `indicators`; operators is None or a reference to a list
heap_analyze_query(h, q, ops, indicators) ==
    LET given == IF ops.kind = "none" THEN new_object(h, PyList(<<>>))
                 ELSE [heap |-> h, value |-> ops]
        operator_data == heap_analyze_operators(given.heap, given.value, q)
        found == analyze_query(q, Load(given.heap, given.value), indicators)
        patterns ==
           new_object(operator_data.heap,
                      PyList([i \in 1..Len(found.query_patterns) |->
                                 PyStr(found.query_patterns[i])]))
        summary ==
           new_object(patterns.heap,
                      PyDict([k \in DOMAIN found.summary |-> PyInt(found.summary[k])]))
        indicator_list ==
           new_object(summary.heap,
                      PyList([i \in 1..Len(indicators) |-> PyStr(indicators[i])]))
        metadata ==
           new_object(indicator_list.heap,
                      PyDict([k \in DOMAIN found.query_metadata |->
                                 PyBool(found.query_metadata[k])]))
    IN  new_object(metadata.heap, PyDict(
           [query |-> PyStr(q),
            query_type |-> PyStr(found.query_type),
            complexity |-> PyStr(found.complexity),
            query_patterns |-> patterns.value,
            performance_characteristics |-> PyStr(found.performance_characteristics),
            operators |-> operator_data.value,
            summary |-> summary.value,
            performance_indicators |-> indicator_list.value,
            query_metadata |-> metadata.value]))

(***************************************************************************)
(* Specification of the calls on objects: the caller holds a plan, two     *)
(* plans, an operator list or what the driver handed over, makes one of    *)
(* the analysis and comparison calls on it, and then modifies an object of *)
(* the result.                                                             *)
(***************************************************************************)
\* the dict `node` laid out in the heap: its args map, its identifiers list
\* and its list of children are objects of their own
RECURSIVE StorePlan(_, _)
RECURSIVE StorePlans(_, _, _)
StorePlan(h, node) ==
    LET args == IF "args" \in DOMAIN node
                THEN new_object(h, PyDict([k \in DOMAIN node.args |->
                                              PyStr(node.args[k])]))
                ELSE [heap |-> h]
        identifiers ==
           IF "identifiers" \in DOMAIN node
           THEN new_object(args.heap,
                           PyList([i \in 1..Len(node.identifiers) |->
                                      PyStr(node.identifiers[i])]))
           ELSE [heap |-> args.heap]
        kids == IF "children" \in DOMAIN node
                THEN StorePlans(identifiers.heap, node.children, <<>>)
                ELSE [heap |-> identifiers.heap]
        children == IF "children" \in DOMAIN node
                    THEN new_object(kids.heap, PyList(kids.value))
                    ELSE [heap |-> kids.heap]
    IN  new_object(children.heap, PyDict(
           [k \in DOMAIN node |->
               CASE k = "args" -> args.value
                 [] k = "identifiers" -> identifiers.value
                 [] k = "children" -> children.value
                 [] k \in {"operator", "operatorType"} -> PyStr(node[k])
                 [] OTHER -> PyInt(node[k])]))

\* the dicts of a sequence laid out one after the other
StorePlans(h, nodes, refs) ==
    IF nodes = <<>> THEN [heap |-> h, value |-> refs]
    ELSE LET first == StorePlan(h, Head(nodes))
         IN  StorePlans(first.heap, Tail(nodes), Append(refs, first.value))

\* a list of operator records laid out in the heap
StoreList(h, records) ==
    LET stored == StorePlans(h, records, <<>>)
    IN  new_object(stored.heap, PyList(stored.value))

\* what the driver hands over laid out in the heap: None, a dict plan, or a
\* plan object with its arguments, identifiers and children
RECURSIVE StoreObject(_, _)
RECURSIVE StoreObjects(_, _, _)
StoreObject(h, p) ==
    IF p.kind = "none" THEN [heap |-> h, value |-> PyNone]
    ELSE IF p.kind = "dict" THEN StorePlan(h, p.value)
    ELSE LET arguments ==
                IF "arguments" \in DOMAIN p.attrs
                THEN new_object(h, PyDict(
                        [k \in DOMAIN p.attrs.arguments |->
                            IF k = "EstimatedRows" THEN PyInt(p.attrs.arguments[k])
                            ELSE PyStr(p.attrs.arguments[k])]))
                ELSE [heap |-> h]
             identifiers ==
                IF "identifiers" \in DOMAIN p.attrs
                THEN new_object(arguments.heap,
                                PyList([i \in 1..Len(p.attrs.identifiers) |->
                                           PyStr(p.attrs.identifiers[i])]))
                ELSE [heap |-> arguments.heap]
             kids == IF "children" \in DOMAIN p.attrs
                     THEN StoreObjects(identifiers.heap, p.attrs.children, <<>>)
                     ELSE [heap |-> identifiers.heap]
             children == IF "children" \in DOMAIN p.attrs
                         THEN new_object(kids.heap, PyList(kids.value))
                         ELSE [heap |-> kids.heap]
         IN  new_object(children.heap, PyObject(
                [k \in DOMAIN p.attrs |->
                    CASE k = "arguments" -> arguments.value
                      [] k = "identifiers" -> identifiers.value
                      [] k = "children" -> children.value
                      [] OTHER -> PyStr(p.attrs[k])]))

StoreObjects(h, ps, refs) ==
    IF ps = <<>> THEN [heap |-> h, value |-> refs]
    ELSE LET first == StoreObject(h, Head(ps))
         IN  StoreObjects(first.heap, Tail(ps), Append(refs, first.value))

\* the plans, operator lists and driver plans the caller holds
HeapNodes == {NodeTyped, NodeTagged, NodeScan}

RECURSIVE HeapTreesOfSize(_)
RECURSIVE HeapForestsOfSize(_)
HeapTreesOfSize(n) ==
    IF n = 1 THEN HeapNodes \cup {EmptyDict}
    ELSE {WithChildren(f, cs) : f \in HeapNodes, cs \in HeapForestsOfSize(n - 1)}

HeapForestsOfSize(n) ==
    IF n = 0 THEN {<<>>}
    ELSE UNION {{<<t>> \o rest : t \in HeapTreesOfSize(k),
                                 rest \in HeapForestsOfSize(n - k)}
                : k \in 1..n}

HeapPlans == UNION {HeapTreesOfSize(n) : n \in 1..MaxHeapNodes}

HeapOperatorLists == UNION {HeapForestsOfSize(n) : n \in 0..MaxHeapNodes}

RECURSIVE HeapObjTreesOfSize(_)
RECURSIVE HeapObjForestsOfSize(_)
HeapObjTreesOfSize(n) ==
    IF n = 1
    THEN {ObjWithChildren(ObjScan, <<>>), PyObject(ObjFilter), PyObject(ObjBare),
          PyNone, PyDict(EmptyDict), PyDict(NodeTyped)}
    ELSE {ObjWithChildren(f, cs) : f \in {ObjScan, ObjBare},
                                   cs \in HeapObjForestsOfSize(n - 1)}

HeapObjForestsOfSize(n) ==
    IF n = 0 THEN {<<>>}
    ELSE UNION {{<<t>> \o rest : t \in HeapObjTreesOfSize(k),
                                 rest \in HeapObjForestsOfSize(n - k)}
                : k \in 1..n}

HeapPlanObjects == UNION {HeapObjTreesOfSize(n) : n \in 1..MaxHeapNodes}

\* the heaps the caller can have built, each with the arguments of the call
\* it is about to make
HeapCases ==
         {StorePlans(<<>>, <<p>>, <<>>) : p \in HeapPlans}
    \cup {StorePlans(<<>>, <<p, p2>>, <<>>) : p \in HeapPlans, p2 \in PartnerPlans}
    \cup {LET stored == StoreList(<<>>, ops)
          IN  [heap |-> stored.heap, value |-> <<stored.value>>]
          : ops \in HeapOperatorLists}
    \cup {LET stored == StoreObject(<<>>, p)
          IN  [heap |-> stored.heap, value |-> <<stored.value>>]
          : p \in HeapPlanObjects}

InitAlias ==
    /\ pc = "start"
    /\ \E case \in HeapCases :
          /\ heap = case.heap
          /\ heap_before = case.heap
          /\ inputs = case.value
    /\ returned = PyNone
    /\ query = "MATCH (n) RETURN n"
    /\ log = <<>>
    /\ NoAnalysis
    /\ plan_obj = NoValue
    /\ plan_dict = NoValue
    /\ optimized_query = ""
    /\ scratch = NoValue
    /\ issues2 = NoValue
    /\ calls = 0
    /\ request = NoValue
    /\ driver = NoValue
    /\ database = NoValue
    /\ plan_data = NoValue
    /\ response = NoValue

aliasfixed == <<plan, plan2, operators, issues, comparison, original_ops,
                optimized_ops, improvements, opname, classified, query,
                textvars, analysis, plan_obj, plan_dict, optimized_query,
                scratch, issues2, calls, request, driver, database, plan_data,
                response, inputs>>

\* the argument is a reference to an object of the kind
IsA(v, kind) == v.kind = "ref" /\ heap[v.value].kind = kind

CallExtractOperators ==
    /\ pc = "start"
    /\ Len(inputs) = 1 /\ IsA(inputs[1], "dict")
    /\ LET call == heap_extract_operators_from_plan(heap, inputs[1])
       IN  /\ heap' = call.heap
           /\ returned' = call.value
    /\ heap_before' = heap
    /\ log' = <<"_extract_operators_from_plan">>
    /\ pc' = "called"
    /\ UNCHANGED aliasfixed

CallAnalyzePlanIssues ==
    /\ pc = "start"
    /\ Len(inputs) = 1 /\ IsA(inputs[1], "dict")
    /\ LET call == heap_analyze_plan_issues(heap, inputs[1], query)
       IN  /\ heap' = call.heap
           /\ returned' = call.value
    /\ heap_before' = heap
    /\ log' = <<"analyze_plan_issues">>
    /\ pc' = "called"
    /\ UNCHANGED aliasfixed

CallAnalyzeOperators ==
    /\ pc = "start"
    /\ Len(inputs) = 1 /\ IsA(inputs[1], "list")
    /\ LET call == heap_analyze_operators(heap, inputs[1], query)
       IN  /\ heap' = call.heap
           /\ returned' = call.value
    /\ heap_before' = heap
    /\ log' = <<"analyze_operators">>
    /\ pc' = "called"
    /\ UNCHANGED aliasfixed

CallAnalyzeQuery ==
    /\ pc = "start"
    /\ Len(inputs) = 1
    /\ inputs[1].kind = "none" \/ IsA(inputs[1], "list")
    /\ \E indicators \in _extract_performance_indicators(
                            analyze_operators(
                               IF inputs[1].kind = "none" THEN <<>>
                               ELSE Load(heap, inputs[1]), query)) :
          LET call == heap_analyze_query(heap, query, inputs[1], indicators)
          IN  /\ heap' = call.heap
              /\ returned' = call.value
    /\ heap_before' = heap
    /\ log' = <<"analyze_query">>
    /\ pc' = "called"
    /\ UNCHANGED aliasfixed

CallPlanToDict ==
    /\ pc = "start"
    /\ Len(inputs) = 1
    /\ LET call == heap_plan_to_dict(heap, inputs[1])
       IN  /\ heap' = call.heap
           /\ returned' = call.value
    /\ heap_before' = heap
    /\ log' = <<"_plan_to_dict">>
    /\ pc' = "called"
    /\ UNCHANGED aliasfixed

CallComparePlans ==
    /\ pc = "start"
    /\ Len(inputs) = 2
    /\ LET call == heap_compare_plans(heap, inputs[1], inputs[2])
       IN  /\ heap' = call.heap
           /\ returned' = call.value
    /\ heap_before' = heap
    /\ log' = <<"compare_plans">>
    /\ pc' = "called"
    /\ UNCHANGED aliasfixed

\* the addresses an object holds
Held(obj) ==
    LET fields == IF obj.kind = "object" THEN obj.attrs ELSE obj.value
    IN  {fields[k].value : k \in {x \in DOMAIN fields : fields[x].kind = "ref"}}

\* the addresses of the objects that can be reached from the addresses given
RECURSIVE ReachableFrom(_, _, _)
ReachableFrom(h, frontier, seen) ==
    IF frontier \subseteq seen THEN seen
    ELSE ReachableFrom(h, UNION {Held(h[a]) : a \in frontier \ seen},
                       seen \cup frontier)

Reachable(h, v) ==
    IF v.kind = "ref" THEN ReachableFrom(h, {v.value}, {}) ELSE {}

\* d["touched"] = 1 on a dict, l.append("touched") on a list
Touched(obj) ==
    IF obj.kind = "dict" THEN PyDict(Put(obj.value, "touched", PyInt(1)))
    ELSE PyList(Append(obj.value, PyStr("touched")))

\* the caller modifies a dict or a list of the result it was returned
ModifyResult ==
    /\ pc = "called"
    /\ \E a \in Reachable(heap, returned) :
          /\ heap[a].kind \in {"dict", "list"}
          /\ heap' = [heap EXCEPT ![a] = Touched(heap[a])]
    /\ log' = Append(log, "modify")
    /\ pc' = "modified"
    /\ UNCHANGED <<heap_before, returned>>
    /\ UNCHANGED aliasfixed

NextAlias ==
    \/ CallExtractOperators
    \/ CallAnalyzePlanIssues
    \/ CallAnalyzeOperators
    \/ CallAnalyzeQuery
    \/ CallPlanToDict
    \/ CallComparePlans
    \/ ModifyResult

SpecAlias == InitAlias /\ [][NextAlias]_vars

\* the objects the caller held when the call was made
InputObjects ==
    UNION {Reachable(heap_before, inputs[i]) : i \in 1..Len(inputs)}

\* the objects both the caller's inputs and the returned result reach
SharedObjects == Reachable(heap, returned) \cap InputObjects

\* the args maps and identifiers lists of the dicts at the addresses given
ArgsAndIdentifiers(addresses) ==
    UNION {{heap_before[a].value[k].value :
               k \in {"args", "identifiers"} \cap DOMAIN heap_before[a].value}
           : a \in {x \in addresses : heap_before[x].kind = "dict"}}

\* what the conversion of a driver plan hands through: a non-empty dict plan
\* as it is, and of a plan object the identifiers list and what the
\* conversion of its children hands through
RECURSIVE HandedThrough(_)
HandedThrough(v) ==
    LET obj == Deref(heap_before, v)
    IN  IF obj.kind = "dict" /\ Truthy(obj.value)
        THEN Reachable(heap_before, v)
        ELSE IF obj.kind = "object" /\ "operator_type" \in DOMAIN obj.attrs
        THEN (IF "identifiers" \in DOMAIN obj.attrs
              THEN {obj.attrs.identifiers.value} ELSE {})
             \cup (IF "children" \in DOMAIN obj.attrs
                   THEN LET kids == heap_before[obj.attrs.children.value].value
                        IN  UNION {HandedThrough(kids[i]) : i \in 1..Len(kids)}
                   ELSE {})
        ELSE {}

\* C21 (as written): after an analysis or comparison call, a later
\* modification of the returned result (of a returned args map, identifiers
\* list or plan mapping) does not change the caller's input: every input has
\* the value it had before the call.
C21_NoSharedStructure ==
    pc = "modified" =>
       \A i \in 1..Len(inputs) :
          Load(heap, inputs[i]) = Load(heap_before, inputs[i])

\* C21 (as the code behaves): a call writes to no object that existed before
\* it, so the inputs have their values from before the call when it returns;
\* the result of compare_plans shares no object with the plans, but the
\* records returned by _extract_operators_from_plan, analyze_plan_issues,
\* analyze_operators and analyze_query hold the very args maps and
\* identifiers lists of the nodes or records they were made from, and
\* _plan_to_dict returns a non-empty dict plan itself and hands the
\* identifiers lists of plan objects through.
C21_SharedArgsAndIdentifiers ==
    pc = "called" =>
       /\ SubSeq(heap, 1, Len(heap_before)) = heap_before
       /\ \A i \in 1..Len(inputs) :
             Load(heap, inputs[i]) = Load(heap_before, inputs[i])
       /\ log[1] = "compare_plans" => SharedObjects = {}
       /\ log[1] \in {"_extract_operators_from_plan", "analyze_plan_issues"} =>
             SharedObjects = ArgsAndIdentifiers(InputObjects)
       /\ log[1] \in {"analyze_operators", "analyze_query"} =>
             SharedObjects =
                IF inputs[1].kind = "none" THEN {}
                ELSE ArgsAndIdentifiers(Held(heap_before[inputs[1].value]))
       /\ log[1] = "_plan_to_dict" =>
             /\ SharedObjects = HandedThrough(inputs[1])
             /\ IsA(inputs[1], "dict") /\ Truthy(heap_before[inputs[1].value].value)
                   => returned = inputs[1]

\* analyze_plan_issues was called on a plan whose root has an args map, the
\* caller added a key to the args map of the first record returned, and the
\* key is now in the args map of the plan
C21_Witness ==
    /\ pc = "modified"
    /\ log = <<"analyze_plan_issues", "modify">>
    /\ "args" \in DOMAIN Load(heap_before, inputs[1])
    /\ "touched" \notin DOMAIN Load(heap_before, inputs[1]).args
    /\ "touched" \in DOMAIN Load(heap, inputs[1]).args
    /\ "touched" \in DOMAIN Load(heap, returned)[1].args

\* what the driver handed over, as a value: None, a dict, a list, or a plan
\* object whose children are such values
RECURSIVE LoadDriverPlan(_)
LoadDriverPlan(v) ==
    LET obj == Deref(heap_before, v)
    IN  IF obj.kind = "none" THEN PyNone
        ELSE IF obj.kind = "dict" THEN PyDict(Load(heap_before, v))
        ELSE IF obj.kind = "list" THEN PyList(Load(heap_before, v))
        ELSE PyObject([k \in DOMAIN obj.attrs |->
                          IF k = "children"
                          THEN LET kids == heap_before[obj.attrs[k].value].value
                               IN  [i \in 1..Len(kids) |-> LoadDriverPlan(kids[i])]
                          ELSE Load(heap_before, obj.attrs[k])])

\* C21 (values): what a call on objects returns holds the values the call on
\* values returns
C21_SameValues ==
    pc = "called" =>
       /\ log[1] = "_extract_operators_from_plan" =>
             Load(heap, returned)
                = _extract_operators_from_plan(Load(heap_before, inputs[1]))
       /\ log[1] = "analyze_plan_issues" =>
             Load(heap, returned)
                = analyze_plan_issues(Load(heap_before, inputs[1]), query)
       /\ log[1] = "analyze_operators" =>
             Load(heap, returned)
                = analyze_operators(Load(heap_before, inputs[1]), query)
       /\ log[1] = "compare_plans" =>
             Load(heap, returned)
                = compare_plans(Load(heap_before, inputs[1]),
                                Load(heap_before, inputs[2]))
       /\ log[1] = "analyze_query" =>
             LET ops == IF inputs[1].kind = "none" THEN <<>>
                        ELSE Load(heap_before, inputs[1])
             IN  Load(heap, returned)
                    = analyze_query(query, ops,
                                    Load(heap, returned).performance_indicators)
       /\ log[1] = "_plan_to_dict" =>
             Load(heap, returned) = _plan_to_dict(LoadDriverPlan(inputs[1]))

(***************************************************************************)
(* analyze_query: the summary (specification SpecAnalyze).                 *)
(***************************************************************************)
\* the value of a numeric field of a record, 0 when the record lacks it
FieldOrZero(r, field) == IF field \in DOMAIN r THEN r[field] ELSE 0

\* C22: in the result of analyze_query, summary.total_operators is the
\* number of operator records, `operators` has one entry per record in the
\* input order, estimated_total_rows and estimated_db_hits are the sums of
\* estimated_rows and db_hits over the records (a missing value counts 0),
\* leaf_operators, updating_operators and eager_operators are the numbers of
\* records classified leaf, updating and eager; all six are 0 when there are
\* no operators.
C22_Summary ==
    pc = "query_analyzed" =>
       LET s == analysis.summary
           idx == 1..Len(operators)
           clean(i) == CleanName(RecordName(operators[i]))
       IN  /\ s.total_operators = Len(operators)
           /\ Len(analysis.operators) = Len(operators)
           /\ \A i \in idx :
                 /\ analysis.operators[i].operator = RecordName(operators[i])
                 /\ analysis.operators[i].estimated_rows
                       = FieldOrZero(operators[i], "estimated_rows")
                 /\ analysis.operators[i].db_hits
                       = FieldOrZero(operators[i], "db_hits")
                 /\ analysis.operators[i].depth = FieldOrZero(operators[i], "depth")
           /\ s.estimated_total_rows
                 = SetSum(idx, [i \in idx |-> FieldOrZero(operators[i], "estimated_rows")])
           /\ s.estimated_db_hits
                 = SetSum(idx, [i \in idx |-> FieldOrZero(operators[i], "db_hits")])
           /\ s.leaf_operators = Cardinality({i \in idx : clean(i) \in leaf_operators})
           /\ s.updating_operators
                 = Cardinality({i \in idx : clean(i) \in updating_operators})
           /\ s.eager_operators
                 = Cardinality({i \in idx : \/ clean(i) \in eager_operators
                                            \/ HasInside(clean(i), "Eager")})
           /\ Len(operators) = 0 =>
                 s = [total_operators |-> 0, leaf_operators |-> 0,
                      updating_operators |-> 0, eager_operators |-> 0,
                      estimated_total_rows |-> 0, estimated_db_hits |-> 0]

\* a leaf with both numbers and an updating operator without a row estimate
C22_Witness ==
    /\ pc = "query_analyzed"
    /\ Len(operators) = 2
    /\ operators[1] = NodeScan
    /\ operators[2] = [operator |-> "Create", db_hits |-> 10001]
    /\ analysis.summary = [total_operators |-> 2, leaf_operators |-> 1,
                           updating_operators |-> 1, eager_operators |-> 0,
                           estimated_total_rows |-> 1000,
                           estimated_db_hits |-> 11001]

(***************************************************************************)
(* Specification of analyze_operators called on a record with a plain      *)
(* operator name and a record whose name carries "@" suffixes.             *)
(***************************************************************************)
PlainNames == {"AllNodesScan", "Create", "EagerSort", "CartesianProduct",
               "NodeIndexSeek", "Filter", "MyEagerThing", ""}

Tags == {"neo4j", "Eager", ""}

\* the names with exactly n "@tag" suffixes
RECURSIVE NamesWithTags(_)
NamesWithTags(n) ==
    IF n = 0 THEN PlainNames
    ELSE {name \o "@" \o tag : name \in NamesWithTags(n - 1), tag \in Tags}

TaggedNames == UNION {NamesWithTags(n) : n \in 0..MaxTags}

InitTagged ==
    /\ pc = "start"
    /\ \E name \in UNION {NamesWithTags(n) : n \in 0..(MaxTags - 1)},
          tagged \in TaggedNames,
          numbers \in {[estimated_rows |-> 100001, db_hits |-> 10001],
                       [estimated_rows |-> 10, db_hits |-> 0]} :
          operators = <<[operator |-> name,
                         estimated_rows |-> numbers.estimated_rows,
                         db_hits |-> numbers.db_hits],
                        [operator |-> tagged,
                         estimated_rows |-> numbers.estimated_rows,
                         db_hits |-> numbers.db_hits]>>
    /\ query = "MATCH (n) RETURN n"
    /\ plan = NoValue
    /\ plan2 = NoValue
    /\ issues = NoValue
    /\ comparison = NoValue
    /\ original_ops = NoValue
    /\ optimized_ops = NoValue
    /\ improvements = NoValue
    /\ opname = ""
    /\ classified = NoValue
    /\ query_type = ""
    /\ complexity = ""
    /\ query_patterns = NoValue
    /\ performance_characteristics = ""
    /\ analysis = NoValue
    /\ NoCall
    /\ NoHeap

\* analyze_operators(operators, query); issues is its return value
AnalyzeOperators ==
    /\ pc = "start"
    /\ issues' = analyze_operators(operators, query)
    /\ pc' = "operators_analyzed"
    /\ UNCHANGED callvars
    /\ UNCHANGED heapvars
    /\ UNCHANGED <<plan, plan2, operators, comparison, original_ops, optimized_ops,
                   improvements, opname, classified, query, textvars, analysis>>

NextTagged == AnalyzeOperators

SpecTagged == InitTagged /\ [][NextTagged]_vars

\* tagged is name followed by "@" and a tag
IsTagged(tagged, name) ==
    /\ Len(tagged) > Len(name)
    /\ SubSeq(tagged, 1, Len(name)) = name
    /\ SubSeq(tagged, Len(name) + 1, Len(name) + 1) = "@"

\* the indicators of a record of analyze_operators, as a set
IndicatorsOf(info) ==
    {info.performance_characteristics.performance_indicators[k] :
        k \in 1..Len(info.performance_characteristics.performance_indicators)}

\* C23: analyze_operators reports the raw name unchanged in `operator` and
\* in clean_operator the name with everything from the first "@" on removed;
\* is_leaf, is_updating, is_eager and the performance indicators are those of
\* clean_operator, so that a record named "X@tag" is classified exactly like
\* a record named "X" with the same numbers.
C23_CleanOperator ==
    pc = "operators_analyzed" =>
       /\ Len(issues) = Len(operators)
       /\ \A i \in 1..Len(operators) :
             LET name == operators[i].operator
                 clean == CleanName(name)
             IN  /\ issues[i].operator = name
                 /\ issues[i].clean_operator = clean
                 /\ ~HasInside(issues[i].clean_operator, "@")
                 /\ ~HasInside(name, "@") => issues[i].clean_operator = name
                 /\ issues[i].is_leaf = (clean \in leaf_operators)
                 /\ issues[i].is_updating = (clean \in updating_operators)
                 /\ issues[i].is_eager = (\/ clean \in eager_operators
                                          \/ HasInside(clean, "Eager"))
                 /\ issues[i].performance_characteristics.operator_type = clean
                 /\ IndicatorsOf(issues[i]) = ClaimedIndicators(operators[i])
       /\ \A i, j \in 1..Len(operators) :
             IsTagged(operators[j].operator, operators[i].operator) =>
                /\ issues[j].clean_operator = issues[i].clean_operator
                /\ issues[j].is_leaf = issues[i].is_leaf
                /\ issues[j].is_updating = issues[i].is_updating
                /\ issues[j].is_eager = issues[i].is_eager
                /\ issues[j].performance_characteristics
                      = issues[i].performance_characteristics

\* "Filter@Eager" is reported under its raw name and classified like
\* "Filter": the tag does not make it eager
C23_Witness ==
    /\ pc = "operators_analyzed"
    /\ operators[1].operator = "Filter"
    /\ operators[2].operator = "Filter@Eager"
    /\ issues[2].operator = "Filter@Eager"
    /\ issues[2].clean_operator = "Filter"
    /\ ~issues[2].is_eager
    /\ issues[2].performance_characteristics = issues[1].performance_characteristics

(***************************************************************************)
(* optimize-neo4j-query: the order of the steps (specification SpecTool).  *)
(***************************************************************************)
\* what a run of optimize-neo4j-query does when nothing fails, in order
FullRun == <<"agent", "EXPLAIN", "PROFILE", "analyze", "rewrite",
             "EXPLAIN", "PROFILE", "analyze", "compare", "analyze_query">>

IsPrefix(s, t) == Len(s) <= Len(t) /\ SubSeq(t, 1, Len(s)) = s

\* the operator of the one-node plan the database answered with
AnsweredOperator(answer) ==
    IF answer.plan.kind = "object" THEN answer.plan.attrs.operator_type
    ELSE answer.plan.value.operator

\* C24: in a run of optimize-neo4j-query the original query's plan is
\* requested first; the query is rewritten only after that plan was
\* obtained; the plan of the rewritten query is requested only then;
\* compare_plans is called only after both plans were obtained, on the
\* original query's plan first and the rewritten query's plan second.  When
\* a step fails no later step runs, and a successful run has made exactly
\* two plan requests.
C24_StepOrder ==
    request.name = "optimize-neo4j-query" /\ ~QueryMissing =>
       LET answers == database.answers
       IN  /\ IsPrefix(log, FullRun)
           /\ Len(answers) <= 2
           /\ \A i \in 1..(Len(answers) - 1) : answers[i].explain = "ok"
           /\ pc = "rewrite" =>
                 /\ Len(answers) = 1 /\ answers[1].explain = "ok"
                 /\ plan_data.query = query
           /\ IF CountIn(log, "rewrite") = 0
              THEN optimized_query = "" /\ Len(answers) <= 1
              ELSE /\ answers[1].explain = "ok"
                   /\ plan.operator = AnsweredOperator(answers[1])
                   /\ optimized_query # ""
           /\ pc = "compare" =>
                 /\ Len(answers) = 2 /\ answers[2].explain = "ok"
                 /\ plan_data.query = optimized_query
                 /\ plan2.operator = AnsweredOperator(answers[2])
           /\ IF CountIn(log, "compare") = 0
              THEN comparison = NoValue
              ELSE /\ Len(answers) = 2
                   /\ answers[1].explain = "ok" /\ answers[2].explain = "ok"
                   /\ comparison.original_operators
                         = (AnsweredOperator(answers[1]) :> 1)
                   /\ comparison.optimized_operators
                         = (AnsweredOperator(answers[2]) :> 1)
           /\ pc = "done" =>
                 IF HasInside(response.result.content[1].text, "Error ")
                 THEN /\ Len(log) < Len(FullRun)
                      /\ Last(log) \in {"agent", "EXPLAIN"}
                      /\ Last(log) = "agent" <=> driver = "none"
                      /\ Last(log) = "EXPLAIN" => Last(answers).explain = "fail"
                 ELSE /\ log = FullRun
                      /\ Len(answers) = 2
                      /\ CountIn(log, "EXPLAIN") = 2

\* a run without failure: the database answered the first request with an
\* AllNodesScan plan and the second with a NodeByLabelScan plan, and the
\* comparison has them in this order
C24_Witness ==
    /\ pc = "done"
    /\ request.name = "optimize-neo4j-query"
    /\ log = FullRun
    /\ Len(database.answers) = 2
    /\ AnsweredOperator(database.answers[1]) = "AllNodesScan"
    /\ AnsweredOperator(database.answers[2]) = "NodeByLabelScan"
    /\ comparison.original_operators = ("AllNodesScan" :> 1)
    /\ comparison.optimized_operators = ("NodeByLabelScan" :> 1)
    /\ optimized_query = "MATCH (n:Node) RETURN n LIMIT 1000"

(***************************************************************************)
(* MCP server: handle_request.  A JSON-RPC request is received and         *)
(* dispatched on its method; tools/call goes on with call_tool.            *)
(***************************************************************************)
\* mutant: initialize answers without the id of the request
Mut_handle_initialize(params, request_id) ==
    [jsonrpc |-> "2.0",
     result |-> [protocolVersion |-> "2025-06-18",
                 capabilities |-> [tools |-> EmptyDict],
                 serverInfo |-> [name |-> "neo4j-optimizer-agent",
                                 version |-> "2.0.0"]]]

handle_initialize(params, request_id) ==
    [jsonrpc |-> "2.0", id |-> request_id,
     result |-> [protocolVersion |-> "2025-06-18",
                 capabilities |-> [tools |-> EmptyDict],
                 serverInfo |-> [name |-> "neo4j-optimizer-agent",
                                 version |-> "2.0.0"]]]

\* list_tools: the two tools, given by name and required arguments (the
\* descriptions and property schemas are left out)
list_tools(request_id) ==
    [jsonrpc |-> "2.0", id |-> request_id,
     result |-> [tools |-> <<[name |-> "optimize-neo4j-query",
                              inputSchema |-> [type |-> "object",
                                               required |-> <<"query">>]],
                             [name |-> "analyze-query-plan",
                              inputSchema |-> [type |-> "object",
                                               required |-> <<"query">>]]>>]]

\* str(e) of the AttributeError of params.get when params is None
NoGetMessage == "'NoneType' object has no attribute 'get'"

\* the params of a request: None, or a mapping
RpcParams ==
    {PyNone, PyDict(EmptyDict), PyDict([name |-> "no-such-tool"])}
    \cup {PyDict([name |-> n]) : n \in {"optimize-neo4j-query", "analyze-query-plan"}}
    \cup {PyDict([name |-> n, arguments |-> a]) :
             n \in {"optimize-neo4j-query", "analyze-query-plan"},
             a \in {EmptyDict, [query |-> "MATCH (n) RETURN n"]}}

RpcMethods == {"initialize", "tools/list", "tools/call", "resources/list"}

\* the request mappings: method, params and id are each there or not
RpcRequests ==
    LET full == {[method |-> m, params |-> p, id |-> PyStr("req-1")] :
                    m \in RpcMethods, p \in RpcParams}
    IN  {Restrict(r, keys) : r \in full,
                             keys \in {{"method", "params", "id"}, {"method", "params"},
                                       {"method", "id"}, {"params", "id"}}}

InitRequest ==
    /\ pc = "received"
    /\ inputs \in {<<r>> : r \in RpcRequests}
    /\ heap = NoValue
    /\ heap_before = NoValue
    /\ returned = NoValue
    /\ query = ""
    /\ NoAnalysis
    /\ plan_obj = NoValue
    /\ plan_dict = NoValue
    /\ optimized_query = ""
    /\ scratch = NoValue
    /\ issues2 = NoValue
    /\ calls = 0
    /\ request = NoValue
    /\ driver \in {"none", "driver"}
    /\ database \in [configured : BOOLEAN, reachable : BOOLEAN, answers : {<<>>}]
    /\ log = <<>>
    /\ plan_data = NoValue
    /\ response = NoValue

\* handle_request(request) up to the call of call_tool; a method or a tool
\* name that is None is given as the text "None" it is formatted as, and
\* `request` is set to the params and request_id call_tool is called with
HandleRequest ==
    /\ pc = "received"
    /\ LET method == Get(inputs[1], "method", "None")
           params == Get(inputs[1], "params", PyDict(EmptyDict))
           request_id == Get(inputs[1], "id", PyNone)
       IN  IF method = "initialize"
           THEN /\ response' = handle_initialize(params, request_id)
                /\ pc' = "done"
                /\ UNCHANGED request
           ELSE IF method = "tools/list"
           THEN /\ response' = list_tools(request_id)
                /\ pc' = "done"
                /\ UNCHANGED request
           ELSE IF method = "tools/call"
           THEN IF params.kind # "dict"
                THEN /\ response' = error_response(request_id, NoGetMessage)
                     /\ pc' = "done"
                     /\ UNCHANGED request
                ELSE /\ request' =
                          IF "arguments" \in DOMAIN params.value
                          THEN [id |-> request_id,
                                name |-> Get(params.value, "name", "None"),
                                arguments |-> params.value.arguments]
                          ELSE [id |-> request_id,
                                name |-> Get(params.value, "name", "None")]
                     /\ pc' = "start"
                     /\ UNCHANGED response
           ELSE /\ response' = error_response(request_id, "Unknown method: " \o method)
                /\ pc' = "done"
                /\ UNCHANGED request
    /\ UNCHANGED heapvars
    /\ UNCHANGED <<query, driver, database, log, plan, plan2, plan_data,
                   optimized_query, issues, comparison, analysis>>
    /\ UNCHANGED <<operators, original_ops, optimized_ops, improvements, opname,
                   classified, textvars, plan_obj, plan_dict, scratch, issues2,
                   calls>>

NextRequest ==
    \/ HandleRequest
    \/ CallTool
    \/ ConstructAgent
    \/ GetOriginalPlan
    \/ AnalyzeAndRewrite
    \/ GetOptimizedPlan
    \/ CompareAndReport
    \/ AnalyzeAndReport

SpecRequest == InitRequest /\ [][NextRequest]_vars

\* the request as received, and what handle_request reads from it
Rpc == inputs[1]
RpcMethod == IF "method" \in DOMAIN Rpc THEN Rpc.method ELSE "None"
RpcId == IF "id" \in DOMAIN Rpc THEN Rpc.id ELSE PyNone

\* the params of a tools/call request are a mapping (or left out)
ParamsGiven == "params" \in DOMAIN Rpc => Rpc.params.kind = "dict"
ToolParams == IF "params" \in DOMAIN Rpc THEN Rpc.params.value ELSE EmptyDict
ToolName == IF "name" \in DOMAIN ToolParams THEN ToolParams.name ELSE "None"

\* the request calls one of the two tools
KnownToolCalled ==
    /\ RpcMethod = "tools/call"
    /\ ParamsGiven
    /\ ToolName \in {"optimize-neo4j-query", "analyze-query-plan"}

\* the tool raised before its try block: there is no query
ToolRaisedOutside == KnownToolCalled /\ QueryMissing

\* the tool raised inside its try block: a plan could not be obtained
ToolRaisedInside ==
    /\ KnownToolCalled /\ ~QueryMissing
    /\ \/ driver = "none"
       \/ database.answers # <<>> /\ Last(database.answers).explain = "fail"

\* the message of the exception the tool raised inside its try block
RaisedMessage ==
    IF driver = "none" THEN "Neo4j connection not available"
    ELSE "Failed to get query plan: " \o Last(database.answers).error

\* what every response has, and the errors of the dispatch
ResponseShape ==
    /\ DOMAIN response \in {{"jsonrpc", "id", "result"}, {"jsonrpc", "id", "error"}}
    /\ response.jsonrpc = "2.0"
    /\ response.id = RpcId
    /\ "error" \in DOMAIN response => response.error.code = -32603
    /\ RpcMethod \in {"initialize", "tools/list"} => "result" \in DOMAIN response
    /\ RpcMethod \notin {"initialize", "tools/list", "tools/call"} =>
          /\ "error" \in DOMAIN response
          /\ response.error.message = "Unknown method: " \o RpcMethod
    /\ RpcMethod = "tools/call" /\ ParamsGiven /\ ~KnownToolCalled =>
          /\ "error" \in DOMAIN response
          /\ response.error.message = "Unknown tool: " \o ToolName

\* C25 (as written): handle_request answers every request mapping with a
\* response that carries the id of the request and has a result (initialize,
\* tools/list, a tool call that completed) or an error with code -32603; an
\* unknown method and an unknown tool are named in the error message, and an
\* exception raised while a tool runs yields an error with its message.
C25_ToolFailuresAreErrors ==
    /\ pc \in {"received", "start", "construct", "get_plan", "rewrite",
               "get_optimized_plan", "compare", "report", "done"}
    /\ pc = "done" =>
          /\ ResponseShape
          /\ ToolRaisedOutside =>
                /\ "error" \in DOMAIN response
                /\ response.error.message = "Query is required"
          /\ ToolRaisedInside =>
                /\ "error" \in DOMAIN response
                /\ response.error.message = RaisedMessage
          /\ KnownToolCalled /\ ~ToolRaisedOutside /\ ~ToolRaisedInside =>
                "result" \in DOMAIN response

\* C25 (as the code behaves): the same, but only an exception raised before
\* the try block of the tool (the missing query) or by call_tool itself
\* (params that are None) yields an error; a failure inside the tool is
\* caught by the tool and comes back as a result whose text holds the
\* failure prefix and the message of the exception.
C25_ToolFailuresAreResults ==
    /\ pc \in {"received", "start", "construct", "get_plan", "rewrite",
               "get_optimized_plan", "compare", "report", "done"}
    /\ pc = "done" =>
          /\ ResponseShape
          /\ RpcMethod = "tools/call" /\ ~ParamsGiven =>
                /\ "error" \in DOMAIN response
                /\ response.error.message = NoGetMessage
          /\ ToolRaisedOutside =>
                /\ "error" \in DOMAIN response
                /\ response.error.message = "Query is required"
          /\ ToolRaisedInside =>
                /\ "result" \in DOMAIN response
                /\ response.result.content[1].text
                      = (IF ToolName = "optimize-neo4j-query"
                         THEN "Error during optimization: "
                         ELSE "Error analyzing query: ") \o RaisedMessage
          /\ KnownToolCalled /\ ~ToolRaisedOutside /\ ~ToolRaisedInside =>
                /\ "result" \in DOMAIN response
                /\ HasInside(response.result.content[1].text, "# ")

\* a call of optimize-neo4j-query without a connection: the failure comes
\* back as a result
C25_Witness ==
    /\ pc = "done"
    /\ Rpc = [method |-> "tools/call", id |-> PyStr("req-1"),
              params |-> PyDict([name |-> "optimize-neo4j-query",
                                 arguments |-> [query |-> "MATCH (n) RETURN n"]])]
    /\ driver = "none"
    /\ response = tool_response(PyStr("req-1"),
          "Error during optimization: Neo4j connection not available")

(***************************************************************************)
(* Specification of analyze_query called on records named after the        *)
(* catalogs of the classifiers.                                            *)
(***************************************************************************)
\* every name of the three catalogs, and names that hold a catalog name or
\* "Eager" inside
CategoryNames ==
    leaf_operators \cup updating_operators \cup eager_operators
    \cup {"Filter", "MyEagerThing", "EagerCreate", "AllNodesScanEager",
          "Create@Eager", "EagerSort@Create", ""}

\* the records that follow the first one
CategoryRecords ==
    {[operator |-> "NodeIndexSeek", estimated_rows |-> 10],
     [operator |-> "SetProperty", db_hits |-> 5],
     [operator |-> "EagerAggregation"]}

RECURSIVE CategoryListsOfLen(_)
CategoryListsOfLen(n) ==
    IF n = 0 THEN {<<>>}
    ELSE {<<r>> \o rest : r \in CategoryRecords, rest \in CategoryListsOfLen(n - 1)}

InitCategories ==
    /\ pc = "start"
    /\ \E name \in CategoryNames,
          rest \in UNION {CategoryListsOfLen(n) : n \in 0..(MaxOps - 1)} :
          operators = <<[operator |-> name]>> \o rest
    /\ query = "RETURN 1"
    /\ plan = NoValue
    /\ plan2 = NoValue
    /\ issues = NoValue
    /\ comparison = NoValue
    /\ original_ops = NoValue
    /\ optimized_ops = NoValue
    /\ improvements = NoValue
    /\ opname = ""
    /\ classified = NoValue
    /\ query_type = ""
    /\ complexity = ""
    /\ query_patterns = NoValue
    /\ performance_characteristics = ""
    /\ analysis = NoValue
    /\ NoCall
    /\ NoHeap

SpecCategories == InitCategories /\ [][NextAnalyze]_vars

\* how many of the three flags of a record of analyze_query are set
FlagsSet(info) ==
    Cardinality({f \in {"is_leaf", "is_updating", "is_eager"} : info[f]})

\* C26: the three operator categories are mutually exclusive.  No name of
\* the leaf or updating catalog is in the eager catalog or has "Eager"
\* inside, and the leaf and updating catalogs are disjoint; so every record
\* of analyze_query has at most one of is_leaf, is_updating, is_eager set,
\* and leaf_operators + updating_operators + eager_operators is at most
\* total_operators.
C26_ExclusiveCategories ==
    /\ leaf_operators \cap updating_operators = {}
    /\ \A name \in leaf_operators \cup updating_operators :
          name \notin eager_operators /\ ~HasEagerInside(name)
    /\ pc = "query_analyzed" =>
          /\ \A i \in 1..Len(analysis.operators) :
                /\ FlagsSet(analysis.operators[i]) <= 1
                /\ analysis.operators[i].operator \in
                      leaf_operators \cup updating_operators \cup eager_operators
                   => FlagsSet(analysis.operators[i]) = 1
          /\ analysis.summary.leaf_operators + analysis.summary.updating_operators
                + analysis.summary.eager_operators
                <= analysis.summary.total_operators

\* a name with "Eager" and "Create" inside is eager only; with an updating
\* record after it the three counts add up to the total
C26_Witness ==
    /\ pc = "query_analyzed"
    /\ Len(operators) = 2
    /\ operators[1].operator = "EagerCreate"
    /\ operators[2].operator = "SetProperty"
    /\ analysis.operators[1].is_eager
    /\ ~analysis.operators[1].is_updating
    /\ analysis.summary.eager_operators = 1
    /\ analysis.summary.updating_operators = 1
    /\ analysis.summary.leaf_operators = 0
    /\ analysis.summary.total_operators = 2

(***************************************************************************)
(* Specification of the rewriter called on a query text and then on its    *)
(* own result.                                                             *)
(***************************************************************************)
\* the caller hands the rewritten query to the rewriter again
GenerateOptimizedQueryAgain ==
    /\ UNCHANGED heapvars
    /\ pc = "rewritten"
    /\ query' = optimized_query
    /\ optimized_query' = generate_optimized_query(optimized_query, <<>>)
    /\ pc' = "rewritten_again"
    /\ UNCHANGED analysisvars
    /\ UNCHANGED <<plan_obj, plan_dict, scratch, issues2, calls, request,
                   driver, database, log, plan_data, response>>

NextRewriteTwice == GenerateOptimizedQuery \/ GenerateOptimizedQueryAgain

SpecRewriteTwice == InitRewrite /\ [][NextRewriteTwice]_vars

\* what the claim says of the result of one application
SettledText(q) ==
    /\ Contains(Upper(q), "LIMIT") \/ Contains(Upper(q), "COUNT(")
    /\ ~Contains(q, "MATCH (n)") \/ Contains(q, ":")

\* C27 as stated: generate_optimized_query is idempotent, rewriting the
\* rewritten query gives the rewritten query again; after one application
\* the result contains LIMIT or COUNT( in any case and either contains no
\* "MATCH (n)" or contains a ":".
C27_Idempotent ==
    /\ pc \in {"rewritten", "rewritten_again"} => SettledText(optimized_query)
    /\ pc = "rewritten_again" => optimized_query = query

\* C27, what holds: after one application the result contains LIMIT or
\* COUNT( and either no "MATCH (n)" or a ":", and a second application
\* neither inserts a label nor appends a limit: it gives the first result
\* without its leading white space, which is the first result itself unless
\* that is " LIMIT 1000", the rewriting of a query of white space only.
C27_IdempotentButForBlank ==
    /\ pc \in {"rewritten", "rewritten_again"} => SettledText(optimized_query)
    /\ pc = "rewritten_again" =>
          /\ optimized_query = Strip(query)
          /\ optimized_query # query <=> query = " LIMIT 1000"

\* the empty query rewritten twice: the second result differs from the first
C27_Witness ==
    /\ pc = "rewritten_again"
    /\ query = " LIMIT 1000"
    /\ optimized_query = "LIMIT 1000"

(***************************************************************************)
(* Specification of the extractor and the comparator called on the same    *)
(* plan, whose nodes carry `operator`, `operatorType`, both or neither.    *)
(***************************************************************************)
NamedNodes ==
    {[operator |-> "Filter"],
     [operator |-> "Filter", operatorType |-> "Filter"],
     [operator |-> "Filter", operatorType |-> "Sort"],
     [operator |-> "Sort", operatorType |-> "Filter"],
     [operatorType |-> "Unknown"],
     [operatorType |-> "Filter"],
     [estimated_rows |-> 5]}

RECURSIVE NamedTreesOfSize(_)
RECURSIVE NamedForestsOfSize(_)
NamedTreesOfSize(n) ==
    IF n = 1
    THEN NamedNodes \cup {EmptyDict}
    ELSE {WithChildren(f, cs) : f \in NamedNodes, cs \in NamedForestsOfSize(n - 1)}

NamedForestsOfSize(n) ==
    IF n = 0 THEN {<<>>}
    ELSE UNION {{<<t>> \o rest : t \in NamedTreesOfSize(k),
                                 rest \in NamedForestsOfSize(n - k)}
                : k \in 1..n}

InitNamed ==
    /\ NoHeap
    /\ pc = "start"
    /\ plan \in UNION {NamedTreesOfSize(n) : n \in 1..MaxNodes}
    /\ plan2 = NoValue
    /\ operators = NoValue
    /\ issues = NoValue
    /\ comparison = NoValue
    /\ original_ops = NoValue
    /\ optimized_ops = NoValue
    /\ improvements = NoValue
    /\ opname = ""
    /\ classified = NoValue
    /\ query = "MATCH (n) RETURN n"
    /\ query_type = ""
    /\ complexity = ""
    /\ query_patterns = NoValue
    /\ performance_characteristics = ""
    /\ analysis = NoValue
    /\ NoCall

\* compare_plans called on a plan whose operators have been extracted
CompareExtracted ==
    /\ UNCHANGED heapvars
    /\ pc = "extracted"
    /\ \E p2 \in PartnerPlans :
          /\ plan2' = p2
          /\ comparison' = compare_plans(plan, p2)
    /\ pc' = "compared"
    /\ UNCHANGED callvars
    /\ UNCHANGED <<plan, operators, issues, original_ops, optimized_ops,
                   improvements, opname, classified, query, textvars, analysis>>

NextNamed == ExtractOperators \/ CompareExtracted

SpecNamed == InitNamed /\ [][NextNamed]_vars

\* the nodes of a plan that are not empty, parents before children, left to
\* right; an empty node has no children to go on with
RECURSIVE VisitedNodes(_)
RECURSIVE VisitedForest(_)
VisitedNodes(p) ==
    IF p = EmptyDict THEN <<>>
    ELSE <<p>> \o VisitedForest(Get(p, "children", <<>>))

VisitedForest(children) ==
    IF Len(children) = 0 THEN <<>>
    ELSE VisitedNodes(Head(children)) \o VisitedForest(Tail(children))

\* how often each name occurs in a sequence of names
OccurrenceCounts(names) ==
    [n \in {names[i] : i \in 1..Len(names)} |->
        Cardinality({i \in 1..Len(names) : names[i] = n})]

ComparatorNames(p) ==
    [i \in 1..Len(VisitedNodes(p)) |-> Get(VisitedNodes(p)[i], "operator", "Unknown")]

ExtractorNames(p) ==
    [i \in 1..Len(VisitedNodes(p)) |->
        Get(VisitedNodes(p)[i], "operatorType",
            Get(VisitedNodes(p)[i], "operator", ""))]

\* every visited node has an `operator` field and no differing `operatorType`
OperatorFieldsAgree(p) ==
    \A i \in 1..Len(VisitedNodes(p)) :
        LET node == VisitedNodes(p)[i]
        IN  /\ "operator" \in DOMAIN node
            /\ "operatorType" \in DOMAIN node => node.operatorType = node.operator

\* the comparator and the extractor visit the same nodes and name them by
\* their own rules
SameNodesOwnNames ==
    /\ Len(operators) = Len(VisitedNodes(plan))
    /\ \A i \in 1..Len(operators) : operators[i].operator = ExtractorNames(plan)[i]
    /\ comparison.original_operators = OccurrenceCounts(ComparatorNames(plan))

\* C28 as stated: the comparator and the extractor visit the same nodes and
\* name them by different rules, and the histogram of compare_plans equals
\* the occurrence counts of the extracted operator names if and only if
\* every node has an `operator` field and no differing `operatorType`.
C28_EqualIffFieldsAgree ==
    pc = "compared" =>
        /\ SameNodesOwnNames
        /\ comparison.original_operators
              = OccurrenceCounts([i \in 1..Len(operators) |-> operators[i].operator])
           <=> OperatorFieldsAgree(plan)

\* C28, what holds: the comparator and the extractor visit the same nodes,
\* the comparator names a node by `operator` or "Unknown", the extractor by
\* `operatorType`, else `operator`, else "".  If every visited node has an
\* `operator` field and no differing `operatorType`, the histogram equals
\* the occurrence counts of the extracted names; the histogram and the
\* counts are equal exactly when every name is given as often by one rule
\* as by the other, which does not need the fields of each node to agree.
C28_EqualIfFieldsAgree ==
    pc = "compared" =>
        /\ SameNodesOwnNames
        /\ OperatorFieldsAgree(plan) =>
              comparison.original_operators
                 = OccurrenceCounts([i \in 1..Len(operators) |-> operators[i].operator])
        /\ comparison.original_operators
              = OccurrenceCounts([i \in 1..Len(operators) |-> operators[i].operator])
           <=> OccurrenceCounts(ComparatorNames(plan))
                  = OccurrenceCounts(ExtractorNames(plan))

\* a plan with an empty child and a child whose operatorType repeats its
\* operator: both visit two nodes and count "Filter" twice
C28_Witness ==
    /\ pc = "compared"
    /\ plan = [operator |-> "Filter",
               children |-> <<EmptyDict,
                              [operator |-> "Filter", operatorType |-> "Filter"]>>]
    /\ Len(operators) = 2
    /\ comparison.original_operators = [n \in {"Filter"} |-> 2]
    /\ OperatorFieldsAgree(plan)

(***************************************************************************)
(* Specification of a plan handed over by the driver as an object, turned  *)
(* into a dict and analyzed.                                               *)
(***************************************************************************)
\* a profiled node: the driver reports the hits among the arguments
ObjHits == [operator_type |-> "NodeByLabelScan",
            arguments |-> [EstimatedRows |-> 200000, DbHits |-> 20000,
                           db_hits |-> 20000],
            identifiers |-> <<"n">>]

NativeLeaves ==
    {ObjWithChildren(ObjScan, <<>>), ObjWithChildren(ObjHits, <<>>),
     PyObject(ObjHits), PyObject(ObjBare), PyNone,
     PyDict(NodeScan), PyDict(EmptyDict)}

RECURSIVE NativeTreesOfSize(_)
RECURSIVE NativeForestsOfSize(_)
NativeTreesOfSize(n) ==
    IF n = 1 THEN NativeLeaves
    ELSE {ObjWithChildren(f, cs) : f \in {ObjScan, ObjHits, ObjBare},
                                   cs \in NativeForestsOfSize(n - 1)}

NativeForestsOfSize(n) ==
    IF n = 0 THEN {<<>>}
    ELSE UNION {{<<t>> \o rest : t \in NativeTreesOfSize(k),
                                 rest \in NativeForestsOfSize(n - k)}
                : k \in 1..n}

NativePlans == UNION {NativeTreesOfSize(n) : n \in 1..MaxObjNodes}

InitNative ==
    /\ NoHeap
    /\ pc = "start"
    /\ query = "RETURN 1"
    /\ NoAnalysis
    /\ plan_obj \in NativePlans
    /\ plan_dict = NoValue
    /\ optimized_query = ""
    /\ scratch = NoValue
    /\ issues2 = NoValue
    /\ calls = 0
    /\ request = NoValue
    /\ driver = NoValue
    /\ database = NoValue
    /\ log = NoValue
    /\ plan_data = NoValue
    /\ response = NoValue

\* the operators of the converted plan are extracted and handed to
\* analyze_query
AnalyzeConverted ==
    /\ UNCHANGED heapvars
    /\ pc = "converted"
    /\ LET ops == _extract_operators_from_plan(plan_dict)
       IN  /\ operators' = ops
           /\ \E indicators \in
                 _extract_performance_indicators(analyze_operators(ops, query)) :
                 analysis' = analyze_query(query, ops, indicators)
    /\ pc' = "query_analyzed"
    /\ UNCHANGED <<query, plan, plan2, issues, comparison, original_ops,
                   optimized_ops, improvements, opname, classified, textvars>>
    /\ UNCHANGED callvars

NextNative == PlanToDict \/ AnalyzeConverted

SpecNative == InitNative /\ [][NextNative]_vars

\* no node of a plan dict has a db_hits field
RECURSIVE NoDbHitsField(_)
NoDbHitsField(p) ==
    /\ "db_hits" \notin DOMAIN p
    /\ \A i \in 1..Len(Get(p, "children", <<>>)) : NoDbHitsField(p.children[i])

SeqHas(s, x) == \E i \in 1..Len(s) : s[i] = x

\* C29: a plan obtained from a plan whose nodes are all objects never
\* carries database hits: no node of the mapping made by _plan_to_dict has a
\* db_hits field, so every extracted record has db_hits = 0,
\* summary.estimated_db_hits is 0 and no node gets the "high_db_hits"
\* indicator, whatever the arguments of the plan object hold.
C29_NoDbHits ==
    ObjectTree(plan_obj) =>
       /\ pc \in {"converted", "query_analyzed"} => NoDbHitsField(plan_dict)
       /\ pc = "query_analyzed" =>
             /\ \A i \in 1..Len(operators) : operators[i].db_hits = 0
             /\ analysis.summary.estimated_db_hits = 0
             /\ \A i \in 1..Len(analysis.operators) :
                   /\ analysis.operators[i].db_hits = 0
                   /\ ~SeqHas(analysis.operators[i].performance_characteristics
                                 .performance_indicators, "high_db_hits")
             /\ ~SeqHas(analysis.performance_indicators, "high_db_hits")

\* a profiled object with a profiled child: 20000 hits in the arguments of
\* both, none in the analysis, while the row estimate is taken over
C29_Witness ==
    /\ pc = "query_analyzed"
    /\ plan_obj = ObjWithChildren(ObjHits, <<PyObject(ObjHits)>>)
    /\ Len(operators) = 2
    /\ operators[2].args.DbHits = 20000
    /\ operators[2].db_hits = 0
    /\ analysis.summary.estimated_db_hits = 0
    /\ analysis.summary.estimated_total_rows = 400000
    /\ analysis.performance_indicators = <<"high_row_count">>

(***************************************************************************)
(* The process-wide driver handle.  An environment is the variables of the *)
(* process (vars), whether GraphDatabase.driver accepts the URI (accepted) *)
(* and whether the test query gets through (reachable).  A driver is named *)
(* after the URI it was created for.                                       *)
(***************************************************************************)
\* bool(os.getenv(name)): the variable is set and not empty
EnvTruthy(env, name) == name \in DOMAIN env.vars /\ env.vars[name] # ""

\* mutant: the handle is assigned once the test query has run
Mut_setup_neo4j_connection(drv, env) ==
    IF EnvTruthy(env, "NEO4J_URI") /\ EnvTruthy(env, "NEO4J_PASSWORD")
    THEN IF ~env.accepted
         THEN [driver |-> drv, raised |-> TRUE, message |-> "ConfigurationError"]
         ELSE IF ~env.reachable
         THEN [driver |-> drv, raised |-> TRUE,
               message |-> "ServiceUnavailable"]
         ELSE [driver |-> "driver:" \o env.vars.NEO4J_URI, raised |-> FALSE,
               message |-> ""]
    ELSE [driver |-> drv, raised |-> TRUE,
          message |-> "Neo4j credentials not found"]

\* setup_neo4j_connection() with the global driver drv: the value of the
\* global afterwards and whether the call raises
setup_neo4j_connection(drv, env) ==
    IF EnvTruthy(env, "NEO4J_URI") /\ EnvTruthy(env, "NEO4J_PASSWORD")
    THEN IF ~env.accepted
         THEN [driver |-> drv, raised |-> TRUE, message |-> "ConfigurationError"]
         ELSE IF ~env.reachable
         THEN [driver |-> "driver:" \o env.vars.NEO4J_URI, raised |-> TRUE,
               message |-> "ServiceUnavailable"]
         ELSE [driver |-> "driver:" \o env.vars.NEO4J_URI, raised |-> FALSE,
               message |-> ""]
    ELSE [driver |-> drv, raised |-> TRUE,
          message |-> "Neo4j credentials not found"]

\* Neo4jOptimizerAgent(): a failure of the setup is printed and put up with
Neo4jOptimizerAgent(drv, env) ==
    [driver |-> setup_neo4j_connection(drv, env).driver,
     raised |-> FALSE, message |-> ""]

(***************************************************************************)
(* Specification of agents constructed one after the other, in changing    *)
(* environments, with plan requests in between.                            *)
(***************************************************************************)
MaxSteps == 3   \* constructions and plan requests in a row

Environments ==
    {[vars |-> EmptyDict, accepted |-> TRUE, reachable |-> TRUE],
     [vars |-> [NEO4J_URI |-> "bolt://a"], accepted |-> TRUE, reachable |-> TRUE],
     [vars |-> [NEO4J_URI |-> "", NEO4J_PASSWORD |-> "pw"],
      accepted |-> TRUE, reachable |-> TRUE],
     [vars |-> [NEO4J_URI |-> "bolt://a", NEO4J_PASSWORD |-> "pw"],
      accepted |-> TRUE, reachable |-> TRUE],
     [vars |-> [NEO4J_URI |-> "bolt://b", NEO4J_PASSWORD |-> "pw"],
      accepted |-> TRUE, reachable |-> FALSE],
     [vars |-> [NEO4J_URI |-> "ftp://c", NEO4J_PASSWORD |-> "pw"],
      accepted |-> FALSE, reachable |-> FALSE]}

NoEnvironment == [vars |-> EmptyDict, accepted |-> FALSE, reachable |-> FALSE]

\* what the database answers to a plan request of this specification
DriverAnswers ==
    {a \in Answers : a.profile = "ok" /\ a.plan = PyDict(LabelScanPlan)}

InitDriver ==
    /\ NoHeap
    /\ pc = "start"
    /\ query = "RETURN 1"
    /\ NoAnalysis
    /\ plan_obj = NoValue
    /\ plan_dict = NoValue
    /\ optimized_query = ""
    /\ scratch = NoValue
    /\ issues2 = NoValue
    /\ calls = 0
    /\ request = NoValue
    /\ driver = "none"
    /\ database = NoEnvironment
    /\ log = <<>>
    /\ plan_data = NoValue
    /\ response = NoValue

driverfixed == <<query, plan_obj, plan_dict, optimized_query, scratch, issues2,
                 request, response>>

\* Neo4jOptimizerAgent() in some environment
Construct ==
    /\ UNCHANGED heapvars
    /\ calls < MaxSteps
    /\ \E env \in Environments :
          LET made == Neo4jOptimizerAgent(driver, env)
          IN  /\ database' = env
              /\ driver' = made.driver
              /\ log' = Append(log, [op |-> "construct", env |-> env,
                                     used |-> "", raised |-> made.raised,
                                     message |-> made.message])
    /\ calls' = calls + 1
    /\ pc' = "constructed"
    /\ UNCHANGED plan_data
    /\ UNCHANGED analysisvars
    /\ UNCHANGED driverfixed

\* get_query_plan(query) on any agent: the global driver is looked up
RequestPlan ==
    /\ UNCHANGED heapvars
    /\ calls < MaxSteps
    /\ \E answer \in DriverAnswers :
          LET got == get_query_plan(driver, answer, query)
          IN  /\ plan_data' = got
              /\ log' = Append(log, [op |-> "plan", env |-> NoEnvironment,
                                     used |-> IF got.requests = <<>> THEN ""
                                              ELSE driver,
                                     raised |-> got.raised,
                                     message |-> IF got.raised THEN got.message
                                                 ELSE ""])
    /\ calls' = calls + 1
    /\ pc' = "planned"
    /\ UNCHANGED <<driver, database>>
    /\ UNCHANGED analysisvars
    /\ UNCHANGED driverfixed

NextDriver == Construct \/ RequestPlan

SpecDriver == InitDriver /\ [][NextDriver]_vars

\* the i-th operation is a construction that created a driver object
CreatedDriver(i) ==
    /\ log[i].op = "construct"
    /\ EnvTruthy(log[i].env, "NEO4J_URI")
    /\ EnvTruthy(log[i].env, "NEO4J_PASSWORD")
    /\ log[i].env.accepted

\* the constructions before the i-th operation that created a driver
CreationsBefore(i) == {j \in 1..(i - 1) : CreatedDriver(j)}

Latest(S) == CHOOSE j \in S : \A k \in S : k <= j

\* C30: the driver handle is assigned as soon as a driver object is created,
\* before the test query runs, and is never reset; constructing an agent
\* never raises.  After any sequence of constructions get_query_plan fails
\* with "Neo4j connection not available" if and only if no construction so
\* far created a driver, which takes NEO4J_URI and NEO4J_PASSWORD both set;
\* a later construction with missing credentials or a failing connection
\* test leaves the most recently created driver in use for all plan requests.
C30_DriverKept ==
    /\ \A i \in 1..Len(log) :
          /\ log[i].op = "construct" => ~log[i].raised
          /\ log[i].op = "plan" =>
                /\ (log[i].raised /\ log[i].message = "Neo4j connection not available")
                   <=> CreationsBefore(i) = {}
                /\ CreationsBefore(i) # {} =>
                      log[i].used = "driver:" \o
                         log[Latest(CreationsBefore(i))].env.vars.NEO4J_URI
    /\ driver = IF CreationsBefore(Len(log) + 1) = {} THEN "none"
                ELSE "driver:" \o
                     log[Latest(CreationsBefore(Len(log) + 1))].env.vars.NEO4J_URI

\* a driver is created for bolt://b and its connection test fails, an agent
\* is then constructed without credentials, and the plan request that
\* follows is sent through the driver for bolt://b
C30_Witness ==
    /\ pc = "planned"
    /\ Len(log) = 3
    /\ log[1].op = "construct" /\ log[1].env.vars = [NEO4J_URI |-> "bolt://b",
                                                      NEO4J_PASSWORD |-> "pw"]
    /\ ~log[1].env.reachable
    /\ log[2].op = "construct" /\ log[2].env.vars = EmptyDict
    /\ log[3].op = "plan" /\ log[3].used = "driver:bolt://b"
    /\ ~plan_data.raised

====
